---------------------------- MODULE Spec2Model ----------------------------
(***************************************************************************)
(* NodeManager of the NEST kernel (nestkernel/node_manager.cpp): GID       *)
(* allocation and placement (add_node), node lookup, the thread-local view *)
(* cache (ensure_valid_thread_local_ids) and the node lifecycle passes.    *)
(*                                                                         *)
(* The program runs SPMD: every MPI process executes the same sequence of  *)
(* NodeManager calls on its own NodeManager object.  The state of process  *)
(* (rank) r is the r-th component of every variable below.                 *)
(***************************************************************************)
EXTENDS Integers, Sequences, FiniteSets, TLC

VARIABLES
  num_sim_procs,            \* mpi_manager.get_num_sim_processes()
  num_rec_procs,            \* mpi_manager.get_num_rec_processes()
  num_threads,              \* vp_manager.get_num_threads()
  pool,                     \* [rank -> Seq(Node)]: the Models' node memory; a Node* is an index
  local_nodes_,             \* [rank -> SparseNodeArray]: [nodes: Seq([node_, gid_]), max_gid_]
  n_gsd_,                   \* [rank -> Nat]: number of global receivers created so far
  nodes_vec_,               \* [rank -> Seq(Seq(Node*))]: per thread list of local nodes
  wfr_nodes_vec_,           \* [rank -> Seq(Seq(Node*))]: per thread list of nodes using wfr
  wfr_is_used_,             \* [rank -> BOOLEAN]
  nodes_vec_network_size_,  \* [rank -> Nat]: size() when nodes_vec_ was last built
  num_active_nodes_,        \* [rank -> Nat]
  modelranges,              \* [rank -> Seq([model, first, last])]: modelrange_manager
  off_grid_communication,   \* [rank -> BOOLEAN]: event_delivery_manager's off-grid flag
  initialized,              \* [rank -> BOOLEAN]: initialize() has run since construction/finalize
  n_calls,                  \* bookkeeping of the driver: calls made, by kind (bounds the run)
  result,                   \* [rank -> record]: the last call and what it returned or threw
  proxy_nodes_,             \* [rank -> Seq(Seq(Node))]: model_manager's proxy per thread and model
  worker,                   \* [rank -> Seq([pc, it])]: the threads of prepare_nodes' parallel region
  exceptions_raised,        \* [rank -> Seq(slot)]: prepare_nodes' vector of captured exceptions
  caller                    \* [rank -> record]: the threads inside ensure_valid_thread_local_ids

vars == << num_sim_procs, num_rec_procs, num_threads, pool, local_nodes_, n_gsd_,
           nodes_vec_, wfr_nodes_vec_, wfr_is_used_, nodes_vec_network_size_,
           num_active_nodes_, modelranges, off_grid_communication, initialized,
           n_calls, result, proxy_nodes_, worker, exceptions_raised, caller >>

\* the state of the thread-parallel regions
par_vars == << worker, exceptions_raised, caller >>

---------------------------------------------------------------------------
(* Bounds of the model *)

\* local_nodes_.max_size(): the registry's addressable capacity (scaled down)
MaxSize == 6
\* number of values of the unsigned type index (scaled down from 2^64)
IndexModulus == 16
\* add_node calls per run
MaxAddCalls == 2
\* calls of set_status, of the lifecycle passes and of finalize per run
MaxOps == 2

---------------------------------------------------------------------------
(* Topology: mpi_manager and vp_manager *)

Ranks == 0 .. (num_sim_procs + num_rec_procs - 1)
Threads == 0 .. (num_threads - 1)

\* MPIManager::get_process_id( vp ): the rank that hosts virtual process vp
get_process_id(vp) ==
  IF vp >= num_sim_procs * num_threads
    THEN ((vp - num_sim_procs * num_threads) % num_rec_procs) + num_sim_procs
    ELSE vp % num_sim_procs

\* VPManager::is_local_vp( vp ) on process rank
is_local_vp(rank, vp) == get_process_id(vp) = rank

\* VPManager::suggest_vp( gid ): round-robin over the simulation VPs
suggest_vp(gid) == gid % (num_sim_procs * num_threads)

\* VPManager::suggest_rec_vp( k ): round-robin over the recording VPs
suggest_rec_vp(k) ==
  (k % (num_rec_procs * num_threads)) + num_sim_procs * num_threads

\* VPManager::vp_to_thread( vp ) on process rank
vp_to_thread(rank, vp) ==
  IF vp >= num_sim_procs * num_threads
    THEN (vp + num_sim_procs * (1 - num_threads) - rank) \div num_rec_procs
    ELSE vp \div num_sim_procs

\* VPManager::thread_to_vp( t ) on process rank
thread_to_vp(rank, t) ==
  IF rank >= num_sim_procs
    THEN t * num_rec_procs + rank - num_sim_procs + num_sim_procs * num_threads
    ELSE t * num_sim_procs + rank

---------------------------------------------------------------------------
(* Models: model_manager.  Model 0 is the siblingcontainer model.          *)

ModelTable ==
  << [name |-> "siblingcontainer", has_proxies |-> FALSE,
      potential_global_receiver |-> FALSE, one_node_per_process |-> FALSE,
      is_off_grid |-> FALSE, node_uses_wfr |-> FALSE],
     [name |-> "iaf_psc_alpha", has_proxies |-> TRUE,
      potential_global_receiver |-> FALSE, one_node_per_process |-> FALSE,
      is_off_grid |-> FALSE, node_uses_wfr |-> FALSE],
     [name |-> "hh_psc_alpha_gap", has_proxies |-> TRUE,
      potential_global_receiver |-> FALSE, one_node_per_process |-> FALSE,
      is_off_grid |-> TRUE, node_uses_wfr |-> TRUE],
     [name |-> "dc_generator", has_proxies |-> FALSE,
      potential_global_receiver |-> FALSE, one_node_per_process |-> FALSE,
      is_off_grid |-> FALSE, node_uses_wfr |-> FALSE],
     [name |-> "spike_detector", has_proxies |-> FALSE,
      potential_global_receiver |-> TRUE, one_node_per_process |-> FALSE,
      is_off_grid |-> FALSE, node_uses_wfr |-> FALSE],
     [name |-> "music_event_in_proxy", has_proxies |-> FALSE,
      potential_global_receiver |-> FALSE, one_node_per_process |-> TRUE,
      is_off_grid |-> FALSE, node_uses_wfr |-> FALSE] >>

\* ModelManager::get_num_node_models()
get_num_node_models == Len(ModelTable)

\* ModelManager::get_model( m )
get_model(m) == ModelTable[m + 1]

\* the null pointer, and the values a default-constructed Node holds
NullPtr == 0
invalid_thread_ == -1
invalid_index == -1
\* the pseudo model id of a SiblingContainer wrapper
ContainerModelId == -1

\* Model::allocate( t ): a fresh copy of the model's prototype node
NewNode(mod) ==
  [ gid_ |-> 0, model_id_ |-> ContainerModelId, thread_ |-> 0, vp_ |-> invalid_thread_,
    thread_lid_ |-> invalid_index, has_proxies_ |-> get_model(mod).has_proxies,
    local_receiver_ |-> TRUE, frozen_ |-> FALSE,
    node_uses_wfr_ |-> get_model(mod).node_uses_wfr,
    buffers_initialized_ |-> FALSE, siblings_ |-> << >>, destructed |-> 0 ]

---------------------------------------------------------------------------
(* The state of one process as a record, and the registry (SparseNodeArray) *)

\* the part of process rank's state that add_node and the passes work on
Proc(rank) ==
  [ pool |-> pool[rank], reg |-> local_nodes_[rank], n_gsd |-> n_gsd_[rank] ]

\* SparseNodeArray after construction or clear()
EmptyRegistry == [ nodes |-> << >>, max_gid_ |-> 0 ]

\* SparseNodeArray::add_local_node( node ): append the entry, advance max_gid_
add_local_node(reg, ptr, gid) ==
  [ nodes |-> Append(reg.nodes, [ node_ |-> ptr, gid_ |-> gid ]), max_gid_ |-> gid ]

\* SparseNodeArray::add_remote_node( gid ): advance max_gid_ only
add_remote_node(reg, gid) == [ reg EXCEPT !.max_gid_ = gid ]

\* SparseNodeArray::get_max_gid()
get_max_gid(reg) == reg.max_gid_

\* SparseNodeArray::size(): number of locally materialized entries
reg_size(reg) == Len(reg.nodes)

\* SparseNodeArray::get_node_by_index( idx ), idx counted from 0
get_node_by_index(reg, idx) == reg.nodes[idx + 1].node_

\* SparseNodeArray::get_node_by_gid( gid ): null when absent or remote
get_node_by_gid(reg, gid) ==
  IF \E i \in 1 .. Len(reg.nodes) : reg.nodes[i].gid_ = gid
    THEN reg.nodes[CHOOSE i \in 1 .. Len(reg.nodes) : reg.nodes[i].gid_ = gid].node_
    ELSE NullPtr

\* NodeManager::size(): the network size, the largest GID known to this process
size(reg) == get_max_gid(reg)

\* Model::allocate( t ) followed by the setters add_node applies to the new node;
\* the new node's address is the next free slot of the pool
AllocateNode(p, mod, gid, t, vp) ==
  [ p EXCEPT !.pool = Append(@, [ NewNode(mod) EXCEPT
        !.gid_ = gid, !.model_id_ = mod, !.thread_ = t, !.vp_ = vp ]) ]

\* the address of the node allocated last
LastAllocated(p) == Len(p.pool)

---------------------------------------------------------------------------
(* add_node: the four placement branches *)

\* next_local_gid_ that always steps by the number of simulation processes
next_local_gid_AlwaysStride(rank, curr_gid) ==
  (curr_gid + num_sim_procs) % IndexModulus

\* next_local_gid_ that adds the difference of the ranks without reducing it modulo
\* the number of simulation processes
next_local_gid_DifferenceNotReduced(rank, curr_gid) ==
  LET sim_procs == num_sim_procs
      proc_of_curr_gid == curr_gid % sim_procs
  IN  IF rank >= sim_procs \/ proc_of_curr_gid = rank
        THEN (curr_gid + sim_procs) % IndexModulus
        ELSE (curr_gid + (sim_procs + rank - proc_of_curr_gid)) % IndexModulus

\* NodeManager::next_local_gid_( curr_gid ) on process rank
next_local_gid_(rank, curr_gid) ==
  LET sim_procs == num_sim_procs
      proc_of_curr_gid == curr_gid % sim_procs
  IN  IF rank >= sim_procs
        THEN (curr_gid + sim_procs) % IndexModulus
        ELSE IF proc_of_curr_gid = rank
          THEN (curr_gid + sim_procs) % IndexModulus
          ELSE (curr_gid + ((sim_procs + rank - proc_of_curr_gid) % sim_procs))
                 % IndexModulus

\* the global-receiver loop that advances the counter only for the GIDs it creates
\* locally
RECURSIVE GlobalReceiverLoop_CountsLocalOnly(_, _, _, _, _)
GlobalReceiverLoop_CountsLocalOnly(p, rank, mod, gid, max_gid) ==
  IF gid >= max_gid THEN p
  ELSE
    LET vp == suggest_rec_vp(p.n_gsd)
        t == vp_to_thread(rank, vp)
        a == AllocateNode(p, mod, gid, t, vp)
    IN  IF is_local_vp(rank, vp)
          THEN GlobalReceiverLoop_CountsLocalOnly(
                 [ a EXCEPT
                   !.pool[LastAllocated(a)].has_proxies_ = TRUE,
                   !.pool[LastAllocated(a)].local_receiver_ = FALSE,
                   !.reg = add_local_node(@, LastAllocated(a), gid),
                   !.n_gsd = @ + 1 ],
                 rank, mod, gid + 1, max_gid)
          ELSE GlobalReceiverLoop_CountsLocalOnly(
                 [ p EXCEPT !.reg = add_remote_node(@, gid) ],
                 rank, mod, gid + 1, max_gid)

\* one iteration and the rest of: for ( gid = min_gid; gid < max_gid; ++gid ) of the
\* global-receiver branch
RECURSIVE GlobalReceiverLoop(_, _, _, _, _)
GlobalReceiverLoop(p, rank, mod, gid, max_gid) ==
  IF gid >= max_gid THEN p
  ELSE
    LET vp == suggest_rec_vp(p.n_gsd)
        t == vp_to_thread(rank, vp)
        a == AllocateNode(p, mod, gid, t, vp)
        q == IF is_local_vp(rank, vp)
               THEN [ a EXCEPT
                      !.pool[LastAllocated(a)].has_proxies_ = TRUE,
                      !.pool[LastAllocated(a)].local_receiver_ = FALSE,
                      !.reg = add_local_node(@, LastAllocated(a), gid) ]
               ELSE [ p EXCEPT !.reg = add_remote_node(@, gid) ]
    IN  GlobalReceiverLoop([ q EXCEPT !.n_gsd = @ + 1 ], rank, mod, gid + 1, max_gid)

\* the has_proxies loop with the thread taken as vp modulo the number of threads
RECURSIVE ProxiesLoop_WrongThread(_, _, _, _, _)
ProxiesLoop_WrongThread(p, rank, mod, gid, max_gid) ==
  IF gid >= max_gid THEN p
  ELSE
    LET vp == suggest_vp(gid)
        a == AllocateNode(p, mod, gid, vp % num_threads, vp)
    IN  IF is_local_vp(rank, vp)
          THEN ProxiesLoop_WrongThread(
                 [ a EXCEPT !.reg = add_local_node(@, LastAllocated(a), gid) ],
                 rank, mod, next_local_gid_(rank, gid), max_gid)
          ELSE ProxiesLoop_WrongThread(p, rank, mod, gid + 1, max_gid)

\* one iteration and the rest of: while ( gid < max_gid ) of the has_proxies branch
RECURSIVE ProxiesLoop(_, _, _, _, _)
ProxiesLoop(p, rank, mod, gid, max_gid) ==
  IF gid >= max_gid THEN p
  ELSE
    LET vp == suggest_vp(gid)
        t == vp_to_thread(rank, vp)
        a == AllocateNode(p, mod, gid, t, vp)
    IN  IF is_local_vp(rank, vp)
          THEN ProxiesLoop([ a EXCEPT !.reg = add_local_node(@, LastAllocated(a), gid) ],
                           rank, mod, next_local_gid_(rank, gid), max_gid)
          ELSE ProxiesLoop(p, rank, mod, gid + 1, max_gid)

\* the GID the has_proxies loop starts at: min_gid when it is local, else the next
\* local GID after it
first_local_gid(rank, min_gid) ==
  IF is_local_vp(rank, suggest_vp(min_gid))
    THEN min_gid
    ELSE next_local_gid_(rank, min_gid)

\* the values gid takes at the head of: while ( gid < max_gid ) of the has_proxies
\* branch, from gid on, in the order the loop visits them
RECURSIVE ProxiesLoopGids(_, _, _)
ProxiesLoopGids(rank, gid, max_gid) ==
  IF gid >= max_gid THEN << >>
  ELSE << gid >> \o ProxiesLoopGids(rank,
                                    IF is_local_vp(rank, suggest_vp(gid))
                                      THEN next_local_gid_(rank, gid)
                                      ELSE gid + 1,
                                    max_gid)

\* the has_proxies branch without the trailing remote marker
ProxiesBranch_NoRemoteMarker(p, rank, mod, min_gid, max_gid) ==
  ProxiesLoop(p, rank, mod,
              IF is_local_vp(rank, suggest_vp(min_gid))
                THEN min_gid ELSE next_local_gid_(rank, min_gid),
              max_gid)

\* the has_proxies branch: first local gid, the loop, and the trailing remote marker
ProxiesBranch(p, rank, mod, min_gid, max_gid) ==
  LET first == IF is_local_vp(rank, suggest_vp(min_gid))
                 THEN min_gid
                 ELSE next_local_gid_(rank, min_gid)
      q == ProxiesLoop(p, rank, mod, first, max_gid)
  IN  IF ~ is_local_vp(rank, suggest_vp(max_gid - 1))
        THEN [ q EXCEPT !.reg = add_remote_node(@, max_gid - 1) ]
        ELSE q

\* the sibling loop that stops one thread early
RECURSIVE FillContainer_OneThreadShort(_, _, _, _, _, _)
FillContainer_OneThreadShort(p, rank, mod, gid, c, t) ==
  IF t >= num_threads - 1 /\ t > 0 THEN p
  ELSE
    LET a == AllocateNode(p, mod, gid, t, thread_to_vp(rank, t))
    IN  FillContainer_OneThreadShort(
          [ a EXCEPT !.pool[c].siblings_ = Append(@, LastAllocated(a)) ],
          rank, mod, gid, c, t + 1)

\* for ( t = 0; t < n_threads; ++t ): one instance of the model per thread, pushed
\* into the container at address c
RECURSIVE FillContainer(_, _, _, _, _, _)
FillContainer(p, rank, mod, gid, c, t) ==
  IF t >= num_threads THEN p
  ELSE
    LET a == AllocateNode(p, mod, gid, t, thread_to_vp(rank, t))
    IN  FillContainer([ a EXCEPT !.pool[c].siblings_ = Append(@, LastAllocated(a)) ],
                      rank, mod, gid, c, t + 1)

\* for ( gid = min_gid; gid < max_gid; ++gid ) of the SiblingContainer branch
RECURSIVE SiblingLoop(_, _, _, _, _)
SiblingLoop(p, rank, mod, gid, max_gid) ==
  IF gid >= max_gid THEN p
  ELSE
    LET c == Len(p.pool) + 1
        withc == [ p EXCEPT
                   !.pool = Append(@, [ NewNode(0) EXCEPT !.gid_ = gid ]),
                   !.reg = add_local_node(@, c, gid) ]
    IN  SiblingLoop(FillContainer(withc, rank, mod, gid, c, 0),
                    rank, mod, gid + 1, max_gid)

\* for ( gid = min_gid; gid < max_gid; ++gid ) of the one-node-per-process branch
RECURSIVE OnePerProcessLoop(_, _, _, _, _)
OnePerProcessLoop(p, rank, mod, gid, max_gid) ==
  IF gid >= max_gid THEN p
  ELSE
    LET a == AllocateNode(p, mod, gid, 0, thread_to_vp(rank, 0))
    IN  OnePerProcessLoop([ a EXCEPT !.reg = add_local_node(@, LastAllocated(a), gid) ],
                          rank, mod, gid + 1, max_gid)

\* which branch of add_node a model takes
Branch(mod) ==
  LET model == get_model(mod)
  IN  IF model.potential_global_receiver /\ num_rec_procs > 0 THEN "global_receiver"
      ELSE IF model.has_proxies THEN "has_proxies"
      ELSE IF ~ model.one_node_per_process THEN "siblings"
      ELSE "one_per_process"

\* the body of add_node after its checks: the placement of [min_gid, max_gid)
Place(p, rank, mod, min_gid, max_gid) ==
  CASE Branch(mod) = "global_receiver" -> GlobalReceiverLoop(p, rank, mod, min_gid, max_gid)
    [] Branch(mod) = "has_proxies" -> ProxiesBranch(p, rank, mod, min_gid, max_gid)
    [] Branch(mod) = "siblings" -> SiblingLoop(p, rank, mod, min_gid, max_gid)
    [] OTHER -> OnePerProcessLoop(p, rank, mod, min_gid, max_gid)

\* the checks of add_node without the test for wrap-around of max_gid
AddNodeOutcome_NoWrapTest(reg, mod, n) ==
  IF mod >= get_num_node_models THEN "UnknownModelID"
  ELSE IF n < 1 THEN "BadProperty"
  ELSE IF (get_max_gid(reg) + 1 + n) % IndexModulus > MaxSize THEN "OutOfMemory"
  ELSE "ok"

\* the exception add_node throws for ( mod, n ) on a registry, or "ok"
AddNodeOutcome(reg, mod, n) ==
  LET min_gid == get_max_gid(reg) + 1
      max_gid == (min_gid + n) % IndexModulus
  IN  IF mod >= get_num_node_models THEN "UnknownModelID"
      ELSE IF n < 1 THEN "BadProperty"
      ELSE IF max_gid > MaxSize \/ max_gid < min_gid THEN "OutOfMemory"
      ELSE "ok"

\* ModelRangeManager::add_range( model, first, last ): extend the last range when the
\* model is the same and the GIDs are adjacent, else append a range
add_range(ranges, mod, first, last) ==
  IF Len(ranges) > 0 /\ ranges[Len(ranges)].model = mod
       /\ ranges[Len(ranges)].last + 1 = first
    THEN [ ranges EXCEPT ![Len(ranges)].last = last ]
    ELSE Append(ranges, [ model |-> mod, first |-> first, last |-> last ])

---------------------------------------------------------------------------
(* Construction, initialize() and add_node() *)

\* what a call left for its caller: the call, its arguments, how it ended, its value
Result(op, args, outcome, ret) ==
  [ op |-> op, args |-> args, outcome |-> outcome, ret |-> ret ]

\* ModelManager's proxy node of a model on a thread: a placeholder without properties
\* of its own, whose Node base part holds the frozen flag
NewProxy == [ frozen_ |-> FALSE ]

\* a thread outside prepare_nodes' parallel region
IdleWorker == [ pc |-> "idle", it |-> 0 ]

\* no thread is inside ensure_valid_thread_local_ids
NoCallers ==
  [ pc |-> [ t \in 1 .. num_threads |-> "idle" ], t |-> 0, stale |-> FALSE, rebuilds |-> 0 ]

\* the topologies the runs start from
\* << simulation processes, recording processes, threads per process >>
Topologies ==
  { << 1, 0, 2 >>, << 2, 0, 2 >>, << 3, 0, 1 >>, << 2, 1, 2 >>, << 1, 2, 2 >>,
    << 3, 1, 1 >> }

\* the topologies of the runs that interleave the threads of one parallel region
ParallelTopologies == { << 1, 0, 2 >>, << 1, 0, 3 >>, << 2, 0, 1 >> }

\* NodeManager::NodeManager() on every process
Constructed ==
  /\ pool = [ r \in Ranks |-> << >> ]
  /\ local_nodes_ = [ r \in Ranks |-> EmptyRegistry ]
  /\ n_gsd_ = [ r \in Ranks |-> 0 ]
  /\ nodes_vec_ = [ r \in Ranks |-> << >> ]
  /\ wfr_nodes_vec_ = [ r \in Ranks |-> << >> ]
  /\ wfr_is_used_ = [ r \in Ranks |-> FALSE ]
  /\ nodes_vec_network_size_ = [ r \in Ranks |-> 0 ]
  /\ num_active_nodes_ = [ r \in Ranks |-> 0 ]
  /\ modelranges = [ r \in Ranks |-> << >> ]
  /\ off_grid_communication = [ r \in Ranks |-> FALSE ]
  /\ initialized = [ r \in Ranks |-> FALSE ]
  /\ n_calls = [ add |-> 0, ops |-> 0 ]
  /\ result = [ r \in Ranks |-> Result("NodeManager", << >>, "ok", << >>) ]
  /\ proxy_nodes_ = [ r \in Ranks |-> [ t \in 1 .. num_threads |->
                       [ m \in 1 .. get_num_node_models |-> NewProxy ] ] ]
  /\ worker = [ r \in Ranks |-> [ t \in 1 .. num_threads |-> IdleWorker ] ]
  /\ exceptions_raised = [ r \in Ranks |-> << >> ]
  /\ caller = [ r \in Ranks |-> NoCallers ]

\* NodeManager::NodeManager() on every process of a topology
Init ==
  /\ \E tp \in Topologies :
       /\ num_sim_procs = tp[1]
       /\ num_rec_procs = tp[2]
       /\ num_threads = tp[3]
  /\ Constructed

\* the same, for the runs that interleave the threads of a parallel region
InitParallel ==
  /\ \E tp \in ParallelTopologies :
       /\ num_sim_procs = tp[1]
       /\ num_rec_procs = tp[2]
       /\ num_threads = tp[3]
  /\ Constructed

topology == << num_sim_procs, num_rec_procs, num_threads >>

\* the model ids and counts add_node is called with
ModelIds == 0 .. get_num_node_models
Counts == { 0, 1, 2, 5, IndexModulus - 1 }
\* the models and counts of the runs that look at what follows a creation
NodeModels == 1 .. (get_num_node_models - 1)
FewCounts == { 1, 2 }
\* the models of the runs that interleave threads: hh_psc_alpha_gap, a model with
\* proxies that uses waveform relaxation, and dc_generator, replicated on every thread
ParallelModels == { 2, 3 }

\* add_node that takes the registry's max-GID itself as the first new GID
add_node_FirstGidOffByOne(p, rank, mod, n) ==
  IF AddNodeOutcome(p.reg, mod, n) = "ok"
    THEN Place(p, rank, mod, get_max_gid(p.reg), (get_max_gid(p.reg) + n) % IndexModulus)
    ELSE p

\* NodeManager::add_node( mod, n ) on process rank: the process afterwards
add_node(p, rank, mod, n) ==
  LET min_gid == get_max_gid(p.reg) + 1
      max_gid == (min_gid + n) % IndexModulus
  IN  IF AddNodeOutcome(p.reg, mod, n) = "ok"
        THEN Place(p, rank, mod, min_gid, max_gid)
        ELSE p

\* add_node( mod, n ), called on every process
AddNode(mod, n) ==
  LET new == [ r \in Ranks |-> add_node(Proc(r), r, mod, n) ]
      outcome == [ r \in Ranks |-> AddNodeOutcome(local_nodes_[r], mod, n) ]
      min_gid == [ r \in Ranks |-> get_max_gid(local_nodes_[r]) + 1 ]
      max_gid == [ r \in Ranks |-> (min_gid[r] + n) % IndexModulus ]
  IN  /\ \A r \in Ranks : initialized[r]
      /\ n_calls.add < MaxAddCalls
      /\ n_calls' = [ n_calls EXCEPT !.add = @ + 1 ]
      /\ pool' = [ r \in Ranks |-> new[r].pool ]
      /\ local_nodes_' = [ r \in Ranks |-> new[r].reg ]
      /\ n_gsd_' = [ r \in Ranks |-> new[r].n_gsd ]
      /\ modelranges' = [ r \in Ranks |->
           IF outcome[r] = "ok"
             THEN add_range(modelranges[r], mod, min_gid[r], max_gid[r] - 1)
             ELSE modelranges[r] ]
      /\ off_grid_communication' = [ r \in Ranks |->
           IF outcome[r] = "ok" /\ get_model(mod).is_off_grid
             THEN TRUE
             ELSE off_grid_communication[r] ]
      /\ result' = [ r \in Ranks |->
           Result("add_node", << mod, n >>, outcome[r],
                  IF outcome[r] = "ok"
                    THEN << min_gid[r], max_gid[r] - 1, mod >>
                    ELSE << >>) ]
      /\ UNCHANGED << topology, par_vars, proxy_nodes_, nodes_vec_, wfr_nodes_vec_, wfr_is_used_,
                      nodes_vec_network_size_, num_active_nodes_, initialized >>

\* the topologies next_local_gid_ is tried on: one to four simulation processes, with
\* and without recording processes
StrideTopologies ==
  Topologies \cup { << 4, 0, 1 >>, << 4, 1, 2 >>, << 2, 2, 1 >> }

\* NodeManager::NodeManager() on every process of one of these topologies
InitStride ==
  /\ \E tp \in StrideTopologies :
       /\ num_sim_procs = tp[1]
       /\ num_rec_procs = tp[2]
       /\ num_threads = tp[3]
  /\ Constructed

\* the GIDs next_local_gid_ is called with: the GIDs a registry can hold
StrideGids == 0 .. MaxSize

\* next_local_gid_( curr_gid ), called on every process
NextLocalGid(curr_gid) ==
  /\ result' = [ r \in Ranks |->
       Result("next_local_gid_", << curr_gid >>, "ok", << next_local_gid_(r, curr_gid) >>) ]
  /\ UNCHANGED << topology, par_vars, proxy_nodes_, pool, local_nodes_, n_gsd_, nodes_vec_,
                  wfr_nodes_vec_, wfr_is_used_, nodes_vec_network_size_, num_active_nodes_,
                  modelranges, off_grid_communication, initialized, n_calls >>

\* the has_proxies loop of add_node over [ min_gid, max_gid ), run on every process
\* for the GIDs it visits
ProxiesLoopRange(min_gid, max_gid) ==
  /\ min_gid >= 1 /\ min_gid < max_gid
  /\ result' = [ r \in Ranks |->
       Result("has_proxies_loop", << min_gid, max_gid >>, "ok",
              ProxiesLoopGids(r, first_local_gid(r, min_gid), max_gid)) ]
  /\ UNCHANGED << topology, par_vars, proxy_nodes_, pool, local_nodes_, n_gsd_, nodes_vec_,
                  wfr_nodes_vec_, wfr_is_used_, nodes_vec_network_size_, num_active_nodes_,
                  modelranges, off_grid_communication, initialized, n_calls >>

---------------------------------------------------------------------------
(* The thread-local view cache *)

\* Node::num_thread_siblings(): 0 for a plain node, the container's size otherwise
num_thread_siblings(node) == Len(node.siblings_)

\* the view cache of one process and the pool its rebuild writes thread_lid_ into
Cache(rank) ==
  [ pool |-> pool[rank], nodes_vec |-> nodes_vec_[rank],
    wfr_nodes_vec |-> wfr_nodes_vec_[rank], wfr_is_used |-> wfr_is_used_[rank],
    network_size |-> nodes_vec_network_size_[rank] ]

\* the second loop that lists the replica of the first thread for every thread
RECURSIVE BuildThreadList_SiblingZero(_, _, _, _)
BuildThreadList_SiblingZero(c, reg, t, idx) ==
  IF idx >= reg_size(reg) THEN c
  ELSE
    LET ptr == get_node_by_index(reg, idx)
        node == c.pool[ptr]
        sib == node.siblings_[1]
    IN  IF num_thread_siblings(node) > 0
          THEN BuildThreadList_SiblingZero(
                 [ c EXCEPT !.pool[sib].thread_lid_ = Len(c.nodes),
                            !.nodes = Append(@, sib) ],
                 reg, t, idx + 1)
        ELSE IF node.thread_ = t
          THEN BuildThreadList_SiblingZero(
                 [ c EXCEPT !.pool[ptr].thread_lid_ = Len(c.nodes),
                            !.nodes = Append(@, ptr),
                            !.wfr = IF node.node_uses_wfr_ THEN Append(@, ptr) ELSE @ ],
                 reg, t, idx + 1)
        ELSE BuildThreadList_SiblingZero(c, reg, t, idx + 1)

\* the second loop that takes the position in the registry as thread-local index
RECURSIVE BuildThreadList_LidIsRegistryIndex(_, _, _, _)
BuildThreadList_LidIsRegistryIndex(c, reg, t, idx) ==
  IF idx >= reg_size(reg) THEN c
  ELSE
    LET ptr == get_node_by_index(reg, idx)
        node == c.pool[ptr]
        sib == node.siblings_[t + 1]
    IN  IF num_thread_siblings(node) > 0
          THEN BuildThreadList_LidIsRegistryIndex(
                 [ c EXCEPT !.pool[sib].thread_lid_ = idx, !.nodes = Append(@, sib) ],
                 reg, t, idx + 1)
        ELSE IF node.thread_ = t
          THEN BuildThreadList_LidIsRegistryIndex(
                 [ c EXCEPT !.pool[ptr].thread_lid_ = idx,
                            !.nodes = Append(@, ptr),
                            !.wfr = IF node.node_uses_wfr_ THEN Append(@, ptr) ELSE @ ],
                 reg, t, idx + 1)
        ELSE BuildThreadList_LidIsRegistryIndex(c, reg, t, idx + 1)

\* the second loop over the registry for thread t: c holds the pool and the two
\* lists of thread t built so far
RECURSIVE BuildThreadList(_, _, _, _)
BuildThreadList(c, reg, t, idx) ==
  IF idx >= reg_size(reg) THEN c
  ELSE
    LET ptr == get_node_by_index(reg, idx)
        node == c.pool[ptr]
        sib == node.siblings_[t + 1]
    IN  IF num_thread_siblings(node) > 0
          THEN BuildThreadList([ c EXCEPT !.pool[sib].thread_lid_ = Len(c.nodes),
                                          !.nodes = Append(@, sib) ],
                               reg, t, idx + 1)
        ELSE IF node.thread_ = t
          THEN BuildThreadList([ c EXCEPT !.pool[ptr].thread_lid_ = Len(c.nodes),
                                          !.nodes = Append(@, ptr),
                                          !.wfr = IF node.node_uses_wfr_
                                                    THEN Append(@, ptr) ELSE @ ],
                               reg, t, idx + 1)
        ELSE BuildThreadList(c, reg, t, idx + 1)

\* for ( t = 0; t < num_threads; ++t ): rebuild the lists of threads t, t+1, ...
RECURSIVE BuildAllThreads(_, _, _)
BuildAllThreads(c, reg, t) ==
  IF t >= num_threads THEN c
  ELSE
    LET one == BuildThreadList([ pool |-> c.pool, nodes |-> << >>, wfr |-> << >> ],
                               reg, t, 0)
    IN  BuildAllThreads([ c EXCEPT !.pool = one.pool,
                                   !.nodes_vec[t + 1] = one.nodes,
                                   !.wfr_nodes_vec[t + 1] = one.wfr ],
                        reg, t + 1)

\* the rebuild inside the critical region: clear and resize, fill, record the size,
\* recompute wfr_is_used_
Rebuild(c, reg) ==
  LET cleared == [ c EXCEPT !.nodes_vec = [ t \in 1 .. num_threads |-> << >> ],
                            !.wfr_nodes_vec = [ t \in 1 .. num_threads |-> << >> ] ]
      built == BuildAllThreads(cleared, reg, 0)
  IN  [ built EXCEPT
        !.network_size = size(reg),
        !.wfr_is_used = \E t \in 1 .. num_threads : Len(built.wfr_nodes_vec[t]) > 0 ]

\* ensure_valid_thread_local_ids with the staleness test inverted
ensure_valid_InvertedTest(c, reg) ==
  IF size(reg) # c.network_size THEN c ELSE Rebuild(c, reg)

\* a rebuild that neither tests staleness nor clears the lists it fills
ensure_valid_AppendsAlways(c, reg) ==
  LET built == Rebuild(c, reg)
  IN  [ built EXCEPT
        !.nodes_vec = [ t \in 1 .. num_threads |->
                        (IF t <= Len(c.nodes_vec) THEN c.nodes_vec[t] ELSE << >>)
                          \o built.nodes_vec[t] ] ]

\* NodeManager::ensure_valid_thread_local_ids() run by one thread
ensure_valid_thread_local_ids(c, reg) ==
  IF size(reg) = c.network_size THEN c
  ELSE IF size(reg) # c.network_size THEN Rebuild(c, reg)
  ELSE c

\* ensure_valid_thread_local_ids(), called on every process
EnsureValid ==
  LET new == [ r \in Ranks |-> ensure_valid_thread_local_ids(Cache(r), local_nodes_[r]) ]
  IN  /\ \A r \in Ranks : initialized[r]
      /\ pool' = [ r \in Ranks |-> new[r].pool ]
      /\ nodes_vec_' = [ r \in Ranks |-> new[r].nodes_vec ]
      /\ wfr_nodes_vec_' = [ r \in Ranks |-> new[r].wfr_nodes_vec ]
      /\ wfr_is_used_' = [ r \in Ranks |-> new[r].wfr_is_used ]
      /\ nodes_vec_network_size_' = [ r \in Ranks |-> new[r].network_size ]
      /\ result' = [ r \in Ranks |->
           Result("ensure_valid", << >>,
                  IF size(local_nodes_[r]) = nodes_vec_network_size_[r]
                    THEN "fresh" ELSE "rebuilt",
                  << >>) ]
      /\ UNCHANGED << topology, par_vars, proxy_nodes_, local_nodes_, n_gsd_, num_active_nodes_, modelranges,
                      off_grid_communication, initialized, n_calls >>

\* no thread of any process is inside a parallel region: the manager is called from
\* the single controlling thread
Sequential ==
  \A r \in Ranks :
    /\ \A t \in 1 .. num_threads : worker[r][t].pc = "idle"
    /\ \A t \in 1 .. num_threads : caller[r].pc[t] = "idle"

\* the places of ensure_valid_thread_local_ids inside the critical region
\* update_nodes_vec
CriticalRegion == { "recheck", "clear", "fill", "record", "wfr_reset", "wfr_loop", "exit" }

\* the threads of process r inside the critical region
InCritical(r) == { t \in 1 .. num_threads : caller[r].pc[t] \in CriticalRegion }

\* entry to a critical region that does not wait for the thread inside it
may_enter_NoExclusion(r) == TRUE

\* #pragma omp critical( update_nodes_vec ): a thread enters when no thread is inside
may_enter(r) == InCritical(r) = {}

\* the first k threads of every process call ensure_valid_thread_local_ids() at the
\* same time, from a thread-parallel context
BeginEnsureValid(k) ==
  /\ Sequential
  /\ \A r \in Ranks : initialized[r]
  /\ k <= num_threads
  /\ n_calls.ops < MaxOps
  /\ n_calls' = [ n_calls EXCEPT !.ops = @ + 1 ]
  /\ caller' = [ r \in Ranks |->
       [ pc |-> [ t \in 1 .. num_threads |-> IF t <= k THEN "test" ELSE "idle" ],
         t |-> 0,
         stale |-> size(local_nodes_[r]) # nodes_vec_network_size_[r],
         rebuilds |-> 0 ] ]
  /\ result' = [ r \in Ranks |-> Result("ensure_valid", << k >>, "running", << >>) ]
  /\ UNCHANGED << topology, proxy_nodes_, worker, exceptions_raised, pool, local_nodes_,
                  n_gsd_, nodes_vec_, wfr_nodes_vec_, wfr_is_used_,
                  nodes_vec_network_size_, num_active_nodes_, modelranges,
                  off_grid_communication, initialized >>

\* thread t of process r moves to the place pc of ensure_valid_thread_local_ids
Goto(r, t, pc) == caller' = [ caller EXCEPT ![r].pc[t] = pc ]

\* one step of thread t of process r inside ensure_valid_thread_local_ids()
EnsureValidStep(r, t) ==
  LET at == caller[r].pc[t]
      fresh == size(local_nodes_[r]) = nodes_vec_network_size_[r]
      cache == << pool, nodes_vec_, wfr_nodes_vec_, wfr_is_used_, nodes_vec_network_size_ >>
  IN  /\ at \notin { "idle", "returned" }
      /\ CASE at = "test" ->
                 /\ Goto(r, t, IF fresh THEN "returned" ELSE "enter")
                 /\ UNCHANGED cache
            [] at = "enter" ->
                 /\ may_enter(r)
                 /\ Goto(r, t, "recheck")
                 /\ UNCHANGED cache
            [] at = "recheck" ->
                 /\ caller' = [ caller EXCEPT
                        ![r].pc[t] = IF fresh THEN "exit" ELSE "clear",
                        ![r].rebuilds = IF fresh THEN @ ELSE @ + 1 ]
                 /\ UNCHANGED cache
            [] at = "clear" ->
                 /\ nodes_vec_' = [ nodes_vec_ EXCEPT
                        ![r] = [ u \in 1 .. num_threads |-> << >> ] ]
                 /\ wfr_nodes_vec_' = [ wfr_nodes_vec_ EXCEPT
                        ![r] = [ u \in 1 .. num_threads |-> << >> ] ]
                 /\ caller' = [ caller EXCEPT ![r].pc[t] = "fill", ![r].t = 0 ]
                 /\ UNCHANGED << pool, wfr_is_used_, nodes_vec_network_size_ >>
            [] at = "fill" ->
                 LET one == BuildThreadList([ pool |-> pool[r], nodes |-> << >>,
                                              wfr |-> << >> ],
                                            local_nodes_[r], caller[r].t, 0)
                 IN  /\ pool' = [ pool EXCEPT ![r] = one.pool ]
                     /\ nodes_vec_' = [ nodes_vec_ EXCEPT ![r][caller[r].t + 1] = one.nodes ]
                     /\ wfr_nodes_vec_' = [ wfr_nodes_vec_ EXCEPT
                            ![r][caller[r].t + 1] = one.wfr ]
                     /\ caller' = [ caller EXCEPT
                            ![r].t = @ + 1,
                            ![r].pc[t] = IF caller[r].t + 1 >= num_threads
                                           THEN "record" ELSE "fill" ]
                     /\ UNCHANGED << wfr_is_used_, nodes_vec_network_size_ >>
            [] at = "record" ->
                 /\ nodes_vec_network_size_' = [ nodes_vec_network_size_ EXCEPT
                        ![r] = size(local_nodes_[r]) ]
                 /\ Goto(r, t, "wfr_reset")
                 /\ UNCHANGED << pool, nodes_vec_, wfr_nodes_vec_, wfr_is_used_ >>
            [] at = "wfr_reset" ->
                 /\ wfr_is_used_' = [ wfr_is_used_ EXCEPT ![r] = FALSE ]
                 /\ Goto(r, t, "wfr_loop")
                 /\ UNCHANGED << pool, nodes_vec_, wfr_nodes_vec_, nodes_vec_network_size_ >>
            [] at = "wfr_loop" ->
                 /\ wfr_is_used_' = [ wfr_is_used_ EXCEPT ![r] =
                        @ \/ \E u \in 1 .. num_threads : Len(wfr_nodes_vec_[r][u]) > 0 ]
                 /\ Goto(r, t, "exit")
                 /\ UNCHANGED << pool, nodes_vec_, wfr_nodes_vec_, nodes_vec_network_size_ >>
            [] at = "exit" ->
                 /\ Goto(r, t, "returned")
                 /\ UNCHANGED cache
      /\ UNCHANGED << topology, proxy_nodes_, worker, exceptions_raised, local_nodes_,
                      n_gsd_, num_active_nodes_, modelranges, off_grid_communication,
                      initialized, n_calls, result >>

\* every call of ensure_valid_thread_local_ids() has returned: the threads go on
EndEnsureValid ==
  /\ \A r \in Ranks : \A t \in 1 .. num_threads : caller[r].pc[t] \in { "idle", "returned" }
  /\ \A r \in Ranks : \E t \in 1 .. num_threads : caller[r].pc[t] = "returned"
  /\ caller' = [ r \in Ranks |-> NoCallers ]
  /\ result' = [ r \in Ranks |->
       Result("ensure_valid", result[r].args,
              IF caller[r].rebuilds > 0 THEN "rebuilt" ELSE "fresh", << >>) ]
  /\ UNCHANGED << topology, proxy_nodes_, worker, exceptions_raised, pool, local_nodes_,
                  n_gsd_, nodes_vec_, wfr_nodes_vec_, wfr_is_used_,
                  nodes_vec_network_size_, num_active_nodes_, modelranges,
                  off_grid_communication, initialized, n_calls >>

\* NodeManager::initialize(), called on every process
Initialize ==
  LET new == [ r \in Ranks |->
                 ensure_valid_thread_local_ids([ Cache(r) EXCEPT !.network_size = 0 ],
                                               local_nodes_[r]) ]
  IN  /\ \A r \in Ranks : ~ initialized[r]
      /\ initialized' = [ r \in Ranks |-> TRUE ]
      /\ pool' = [ r \in Ranks |-> new[r].pool ]
      /\ nodes_vec_' = [ r \in Ranks |-> new[r].nodes_vec ]
      /\ wfr_nodes_vec_' = [ r \in Ranks |-> new[r].wfr_nodes_vec ]
      /\ wfr_is_used_' = [ r \in Ranks |-> new[r].wfr_is_used ]
      /\ nodes_vec_network_size_' = [ r \in Ranks |-> new[r].network_size ]
      /\ result' = [ r \in Ranks |-> Result("initialize", << >>, "ok", << >>) ]
      /\ UNCHANGED << topology, par_vars, proxy_nodes_, local_nodes_, n_gsd_, num_active_nodes_, modelranges,
                      off_grid_communication, n_calls >>

---------------------------------------------------------------------------
(* Lookup: get_node and get_thread_siblings *)

\* the GIDs and thread numbers the lookups are called with: every GID known to the
\* processes and the first GID never allocated
LookupGids == 1 .. (get_max_gid(local_nodes_[0]) + 1)
LookupThreads == -1 .. 2

\* get_node whose range test admits thr = number of siblings - 1 only below it
get_node_OffByOne(p, n, thr) ==
  LET node == get_node_by_gid(p.reg, n)
  IN  IF node = NullPtr
        THEN [ outcome |-> "proxy", ret |-> << >> ]
      ELSE IF num_thread_siblings(p.pool[node]) = 0
        THEN [ outcome |-> "node", ret |-> << node >> ]
      ELSE IF thr < 0 \/ thr + 1 >= num_thread_siblings(p.pool[node])
        THEN [ outcome |-> "UnknownNode", ret |-> << >> ]
      ELSE [ outcome |-> "node", ret |-> << p.pool[node].siblings_[thr + 1] >> ]

\* NodeManager::get_node( n, thr ) on a process: how the call ends and the Node* it
\* returns.  "proxy" stands for model_manager.get_proxy_node( thr, n ).
get_node(p, n, thr) ==
  LET node == get_node_by_gid(p.reg, n)
  IN  IF node = NullPtr
        THEN [ outcome |-> "proxy", ret |-> << >> ]
      ELSE IF num_thread_siblings(p.pool[node]) = 0
        THEN [ outcome |-> "node", ret |-> << node >> ]
      ELSE IF thr < 0 \/ thr >= num_thread_siblings(p.pool[node])
        THEN [ outcome |-> "UnknownNode", ret |-> << >> ]
      ELSE [ outcome |-> "node", ret |-> << p.pool[node].siblings_[thr + 1] >> ]

\* get_node( n, thr ), called on every process
GetNode(n, thr) ==
  /\ \A r \in Ranks : initialized[r]
  /\ result' = [ r \in Ranks |->
       Result("get_node", << n, thr >>, get_node(Proc(r), n, thr).outcome,
              get_node(Proc(r), n, thr).ret) ]
  /\ UNCHANGED << topology, par_vars, proxy_nodes_, pool, local_nodes_, n_gsd_, nodes_vec_, wfr_nodes_vec_,
                  wfr_is_used_, nodes_vec_network_size_, num_active_nodes_, modelranges,
                  off_grid_communication, initialized, n_calls >>

\* what node->num_thread_siblings() on a null node can end in: the call through the
\* null pointer is undefined, the build decides
NullDereference == { "crash", "NoThreadSiblingsAvailable", "siblings" }

\* NodeManager::get_thread_siblings( n ) on a process: the ways the call can end
get_thread_siblings(p, n) ==
  LET node == get_node_by_gid(p.reg, n)
  IN  IF node = NullPtr
        THEN { [ outcome |-> o, ret |-> << >> ] : o \in NullDereference }
      ELSE IF num_thread_siblings(p.pool[node]) = 0
        THEN { [ outcome |-> "NoThreadSiblingsAvailable", ret |-> << >> ] }
      ELSE { [ outcome |-> "siblings", ret |-> p.pool[node].siblings_ ] }

\* get_thread_siblings( n ), called on every process
GetThreadSiblings(n) ==
  /\ \A r \in Ranks : initialized[r]
  /\ \E o \in NullDereference :
       result' = [ r \in Ranks |->
         LET ends == get_thread_siblings(Proc(r), n)
             e == IF \E x \in ends : x.outcome = o
                    THEN CHOOSE x \in ends : x.outcome = o
                    ELSE CHOOSE x \in ends : TRUE
         IN  Result("get_thread_siblings", << n >>, e.outcome, e.ret) ]
  /\ UNCHANGED << topology, par_vars, proxy_nodes_, pool, local_nodes_, n_gsd_, nodes_vec_, wfr_nodes_vec_,
                  wfr_is_used_, nodes_vec_network_size_, num_active_nodes_, modelranges,
                  off_grid_communication, initialized, n_calls >>

---------------------------------------------------------------------------
(* set_status, the lifecycle passes and teardown *)

\* the node instances behind a registry entry: the plain node itself, or the thread
\* siblings of a container
Instances(pl, ptr) ==
  IF num_thread_siblings(pl[ptr]) = 0
    THEN { ptr }
    ELSE { pl[ptr].siblings_[i] : i \in 1 .. Len(pl[ptr].siblings_) }

\* set_status that takes gid as the position of the entry in the registry
set_status_ByIndex(p, gid, d) ==
  IF gid <= reg_size(p.reg)
    THEN [ q \in DOMAIN p.pool |->
           IF q \in Instances(p.pool, get_node_by_index(p.reg, gid - 1))
             THEN [ p.pool[q] EXCEPT !.frozen_ = d.frozen ]
             ELSE p.pool[q] ]
    ELSE p.pool

\* NodeManager::set_status( gid, d ) on a process, d = [ frozen |-> b ]: the pool
\* afterwards
set_status(p, gid, d) ==
  LET target == get_node_by_gid(p.reg, gid)
  IN  IF target # NullPtr
        THEN [ q \in DOMAIN p.pool |->
               IF q \in Instances(p.pool, target)
                 THEN [ p.pool[q] EXCEPT !.frozen_ = d.frozen ]
                 ELSE p.pool[q] ]
        ELSE p.pool

\* set_status( gid, d ), called on every process
SetStatus(gid, d) ==
  /\ \A r \in Ranks : initialized[r]
  /\ n_calls.ops < MaxOps
  /\ n_calls' = [ n_calls EXCEPT !.ops = @ + 1 ]
  /\ pool' = [ r \in Ranks |-> set_status(Proc(r), gid, d) ]
  /\ result' = [ r \in Ranks |-> Result("set_status", << gid >>, "ok", << >>) ]
  /\ UNCHANGED << topology, par_vars, proxy_nodes_, local_nodes_, n_gsd_, nodes_vec_, wfr_nodes_vec_,
                  wfr_is_used_, nodes_vec_network_size_, num_active_nodes_, modelranges,
                  off_grid_communication, initialized >>

\* ModelManager::get_model_id( name ): the id of the model registered under a name
get_model_id(name) ==
  (CHOOSE m \in 1 .. get_num_node_models : ModelTable[m].name = name) - 1

\* the property records restore_nodes is called with: the model's name and the
\* properties of the node, of which the frozen flag is kept here
RestoreModels == { "iaf_psc_alpha", "dc_generator", "spike_detector" }
Records == [ model : RestoreModels, frozen : BOOLEAN ]
RecordLists ==
  { << >> } \cup { << a >> : a \in Records } \cup { << a, b >> : a, b \in Records }

\* the state restore_nodes works on: the process, the model ranges, the off-grid flag
\* and the proxy nodes of the model manager, and how the call has gone so far
RestoreState(rank) ==
  [ pool |-> pool[rank], reg |-> local_nodes_[rank], n_gsd |-> n_gsd_[rank],
    ranges |-> modelranges[rank], off_grid |-> off_grid_communication[rank],
    proxies |-> proxy_nodes_[rank], outcome |-> "ok" ]

\* Node::set_status_base( d ) on the object get_node( gid ) returned: the node, or the
\* proxy node of gid's model on thread 0
set_status_base(p, gid, target, d) ==
  IF target.outcome = "proxy"
    THEN [ p EXCEPT !.proxies[1][get_model_id(d.model) + 1].frozen_ = d.frozen ]
    ELSE [ p EXCEPT !.pool[target.ret[1]].frozen_ = d.frozen ]

\* NodeManager::restore_nodes( node_list ) on process rank, from record i on: for each
\* record add_node( model_id ), get_node( gid ) and set_status_base on what it returns;
\* an exception of add_node ends the call
RECURSIVE restore_nodes(_, _, _, _)
restore_nodes(p, rank, node_list, i) ==
  IF i > Len(node_list) THEN p
  ELSE
    LET node_props == node_list[i]
        model_id == get_model_id(node_props.model)
        gid == get_max_gid(p.reg) + 1
        outcome == AddNodeOutcome(p.reg, model_id, 1)
        added == [ add_node(p, rank, model_id, 1) EXCEPT
                   !.ranges = add_range(@, model_id, gid, gid),
                   !.off_grid = @ \/ get_model(model_id).is_off_grid ]
    IN  IF outcome # "ok"
          THEN [ p EXCEPT !.outcome = outcome ]
          ELSE restore_nodes(set_status_base(added, gid, get_node(added, gid, 0), node_props),
                             rank, node_list, i + 1)

\* restore_nodes( node_list ), called on every process; the driver counts it with
\* its add_node calls
RestoreNodes(node_list) ==
  LET new == [ r \in Ranks |-> restore_nodes(RestoreState(r), r, node_list, 1) ]
  IN  /\ \A r \in Ranks : initialized[r]
      /\ n_calls.add < MaxAddCalls
      /\ n_calls' = [ n_calls EXCEPT !.add = @ + 1 ]
      /\ pool' = [ r \in Ranks |-> new[r].pool ]
      /\ local_nodes_' = [ r \in Ranks |-> new[r].reg ]
      /\ n_gsd_' = [ r \in Ranks |-> new[r].n_gsd ]
      /\ modelranges' = [ r \in Ranks |-> new[r].ranges ]
      /\ off_grid_communication' = [ r \in Ranks |-> new[r].off_grid ]
      /\ proxy_nodes_' = [ r \in Ranks |-> new[r].proxies ]
      /\ result' = [ r \in Ranks |->
           Result("restore_nodes", << node_list >>, new[r].outcome, << >>) ]
      /\ UNCHANGED << topology, par_vars, nodes_vec_, wfr_nodes_vec_, wfr_is_used_,
                      nodes_vec_network_size_, num_active_nodes_, initialized >>

\* the node instances reset_nodes_state() reaches: plain nodes, and the siblings of
\* entries whose model id is the container's
ResetSet(p) ==
  UNION { IF num_thread_siblings(p.pool[p.reg.nodes[i].node_]) = 0
            THEN { p.reg.nodes[i].node_ }
          ELSE IF p.pool[p.reg.nodes[i].node_].model_id_ = ContainerModelId
            THEN Instances(p.pool, p.reg.nodes[i].node_)
          ELSE {} : i \in 1 .. Len(p.reg.nodes) }

\* NodeManager::reset_nodes_state() on a process: the pool afterwards
reset_nodes_state(p) ==
  [ q \in DOMAIN p.pool |->
    IF q \in ResetSet(p)
      THEN [ p.pool[q] EXCEPT !.buffers_initialized_ = FALSE ]
      ELSE p.pool[q] ]

\* reset_nodes_state(), called on every process
ResetNodesState ==
  /\ \A r \in Ranks : initialized[r]
  /\ n_calls.ops < MaxOps
  /\ n_calls' = [ n_calls EXCEPT !.ops = @ + 1 ]
  /\ pool' = [ r \in Ranks |-> reset_nodes_state(Proc(r)) ]
  /\ result' = [ r \in Ranks |-> Result("reset_nodes_state", << >>, "ok", << >>) ]
  /\ UNCHANGED << topology, par_vars, proxy_nodes_, local_nodes_, n_gsd_, nodes_vec_, wfr_nodes_vec_,
                  wfr_is_used_, nodes_vec_network_size_, num_active_nodes_, modelranges,
                  off_grid_communication, initialized >>

\* the Node* held by the lists of all threads of a view cache
Listed(vec) == UNION { { vec[t][i] : i \in 1 .. Len(vec[t]) } : t \in 1 .. Len(vec) }

\* NodeManager::prepare_node_( n ): init_buffers(), which initializes the buffers and
\* marks them initialized, then calibrate()
prepare_node_(pl, n) == [ pl EXCEPT ![n].buffers_initialized_ = TRUE ]

\* for ( it = nodes_vec_[ t ].begin(); it != nodes_vec_[ t ].end(); ++it ) from
\* position i on, none of the nodes failing; s holds the pool and the nodes
\* prepare_node_ has been called on, in the order of the calls
RECURSIVE PrepareList(_, _, _)
PrepareList(s, list, i) ==
  IF i > Len(list) THEN s
  ELSE PrepareList([ pool |-> prepare_node_(s.pool, list[i]),
                     calls |-> Append(s.calls, list[i]) ],
                   list, i + 1)

\* the pass over the lists of threads t, t+1, ...
RECURSIVE PrepareThreads(_, _, _)
PrepareThreads(s, vec, t) ==
  IF t > Len(vec) THEN s
  ELSE PrepareThreads(PrepareList(s, vec[t], 1), vec, t + 1)

\* a pass that leaves out the list of the last thread
prepare_nodes_LastThreadMissed(pl, vec) ==
  PrepareThreads([ pool |-> pl, calls |-> << >> ], SubSeq(vec, 1, Len(vec) - 1), 1)

\* NodeManager::prepare_nodes() on a process whose lists hold live nodes and none of
\* whose nodes fails: prepare_node_() on every node of every thread's list
prepare_nodes(pl, vec) == PrepareThreads([ pool |-> pl, calls |-> << >> ], vec, 1)

\* the count prepare_nodes() publishes: listed nodes that are not frozen
CountActive(pl, vec) == Cardinality({ q \in Listed(vec) : ~ pl[q].frozen_ })

\* the view cache holds one list per thread, each of live nodes
CacheUsable(rank) ==
  /\ Len(nodes_vec_[rank]) = num_threads
  /\ \A q \in Listed(nodes_vec_[rank]) : pool[rank][q].destructed = 0

\* prepare_nodes(), called on every process
PrepareNodes ==
  /\ \A r \in Ranks : initialized[r] /\ CacheUsable(r)
  /\ n_calls.ops < MaxOps
  /\ n_calls' = [ n_calls EXCEPT !.ops = @ + 1 ]
  /\ pool' = [ r \in Ranks |-> prepare_nodes(pool[r], nodes_vec_[r]).pool ]
  /\ num_active_nodes_' = [ r \in Ranks |-> CountActive(pool[r], nodes_vec_[r]) ]
  /\ result' = [ r \in Ranks |->
       Result("prepare_nodes", << >>, "ok", prepare_nodes(pool[r], nodes_vec_[r]).calls) ]
  /\ UNCHANGED << topology, par_vars, proxy_nodes_, local_nodes_, n_gsd_, nodes_vec_, wfr_nodes_vec_,
                  wfr_is_used_, nodes_vec_network_size_, modelranges,
                  off_grid_communication, initialized >>

\* how prepare_node_ on one node can end: it returns, or init_buffers() or
\* calibrate() throws
PrepareOutcomes == { "ok", "init_buffers", "calibrate" }

\* the pool after prepare_node_( n ) ended in outcome o
prepare_node_ending(pl, n, o) ==
  IF o = "init_buffers" THEN pl ELSE prepare_node_(pl, n)

\* the loop of thread t with the try block inside the loop: a throw is captured and
\* the loop goes on
worker_step_ContinuesAfterThrow(w, list, o) ==
  IF w.it >= Len(list) THEN [ pc |-> "done", it |-> w.it ]
  ELSE [ pc |-> "loop", it |-> w.it + 1 ]

\* one iteration of the loop of thread t, or its end, inside the try block: w is the
\* thread's position; a throw leaves the loop
worker_step(w, list, o) ==
  IF w.it >= Len(list) THEN [ pc |-> "done", it |-> w.it ]
  ELSE IF o = "ok" THEN [ pc |-> "loop", it |-> w.it + 1 ]
  ELSE [ pc |-> "done", it |-> w.it + 1 ]

\* the catch block: exceptions_raised.at( t ) = the wrapped exception
capture(slots, t, e) == [ slots EXCEPT ![t] = << e >> ]

\* the check after the parallel region that looks at the threads from the last one
first_exception_FromLastThread(slots) ==
  IF \E t \in 1 .. Len(slots) : slots[t] # << >>
    THEN slots[CHOOSE t \in 1 .. Len(slots) :
                 /\ slots[t] # << >>
                 /\ \A u \in 1 .. Len(slots) : slots[u] # << >> => u <= t]
    ELSE << >>

\* the check after the parallel region: the exception of the first thread, in thread
\* order, whose slot is valid; << >> when none is
first_exception(slots) ==
  IF \E t \in 1 .. Len(slots) : slots[t] # << >>
    THEN slots[CHOOSE t \in 1 .. Len(slots) :
                 /\ slots[t] # << >>
                 /\ \A u \in 1 .. Len(slots) : slots[u] # << >> => t <= u]
    ELSE << >>

\* the nodes thread t of process r has called prepare_node_ on so far
Called(r, t) == SubSeq(nodes_vec_[r][t], 1, worker[r][t].it)

\* the count of a thread that leaves out the test of the frozen flag
CountedActive_CountsFrozen(r, t) ==
  IF exceptions_raised[r][t] = << >> THEN worker[r][t].it ELSE worker[r][t].it - 1

\* the nodes thread t of process r counted as active: those prepared without a throw
\* that are not frozen
CountedActive(r, t) ==
  LET ok == IF exceptions_raised[r][t] = << >>
              THEN worker[r][t].it ELSE worker[r][t].it - 1
  IN  Cardinality({ i \in 1 .. ok : ~ pool[r][nodes_vec_[r][t][i]].frozen_ })

\* prepare_nodes() is called on every process: the vector of exception slots is
\* set up and the parallel region opens
BeginPrepare ==
  /\ Sequential
  /\ \A r \in Ranks : initialized[r] /\ CacheUsable(r)
  /\ n_calls.ops < MaxOps
  /\ n_calls' = [ n_calls EXCEPT !.ops = @ + 1 ]
  /\ exceptions_raised' = [ r \in Ranks |-> [ t \in 1 .. num_threads |-> << >> ] ]
  /\ worker' = [ r \in Ranks |-> [ t \in 1 .. num_threads |-> [ pc |-> "loop", it |-> 0 ] ] ]
  /\ result' = [ r \in Ranks |-> Result("prepare_nodes", << >>, "running", << >>) ]
  /\ UNCHANGED << topology, proxy_nodes_, caller, pool, local_nodes_, n_gsd_, nodes_vec_,
                  wfr_nodes_vec_, wfr_is_used_, nodes_vec_network_size_,
                  num_active_nodes_, modelranges, off_grid_communication, initialized >>

\* thread t of process r runs one iteration of its loop over nodes_vec_[ t ]
PrepareStep(r, t) ==
  /\ worker[r][t].pc = "loop"
  /\ \E o \in PrepareOutcomes :
       LET list == nodes_vec_[r][t]
           w == worker[r][t]
       IN  /\ worker' = [ worker EXCEPT ![r][t] = worker_step(w, list, o) ]
           /\ IF w.it >= Len(list)
                THEN o = "ok" /\ UNCHANGED << pool, exceptions_raised >>
                ELSE /\ pool' = [ pool EXCEPT ![r] = prepare_node_ending(@, list[w.it + 1], o) ]
                     /\ exceptions_raised' =
                          IF o = "ok" THEN exceptions_raised
                          ELSE [ exceptions_raised EXCEPT ![r] =
                                   capture(@, t, [ node |-> list[w.it + 1], what |-> o ]) ]
  /\ UNCHANGED << topology, proxy_nodes_, caller, local_nodes_, n_gsd_, nodes_vec_,
                  wfr_nodes_vec_, wfr_is_used_, nodes_vec_network_size_,
                  num_active_nodes_, modelranges, off_grid_communication, initialized,
                  n_calls, result >>

\* the parallel region has closed on every process: the first captured exception is
\* thrown, or the count of active nodes is published
EndPrepare ==
  /\ \A r \in Ranks : \A t \in 1 .. num_threads : worker[r][t].pc = "done"
  /\ worker' = [ r \in Ranks |-> [ t \in 1 .. num_threads |-> IdleWorker ] ]
  /\ exceptions_raised' = [ r \in Ranks |-> << >> ]
  /\ result' = [ r \in Ranks |->
       IF first_exception(exceptions_raised[r]) # << >>
         THEN Result("prepare_nodes", << >>, "WrappedThreadException",
                     first_exception(exceptions_raised[r]))
         ELSE Result("prepare_nodes", << >>, "ok", << >>) ]
  /\ num_active_nodes_' = [ r \in Ranks |->
       IF first_exception(exceptions_raised[r]) # << >>
         THEN num_active_nodes_[r]
         ELSE LET RECURSIVE Sum(_)
                  Sum(t) == IF t = 0 THEN 0 ELSE CountedActive(r, t) + Sum(t - 1)
              IN  Sum(num_threads) ]
  /\ UNCHANGED << topology, proxy_nodes_, caller, pool, local_nodes_, n_gsd_, nodes_vec_,
                  wfr_nodes_vec_, wfr_is_used_, nodes_vec_network_size_, modelranges,
                  off_grid_communication, initialized, n_calls >>

\* post_run_cleanup() and finalize_nodes(), called on every process: the hooks they
\* call on the nodes of the registry change nothing the manager holds
NodePass(op) ==
  /\ \A r \in Ranks : initialized[r]
  /\ n_calls.ops < MaxOps
  /\ n_calls' = [ n_calls EXCEPT !.ops = @ + 1 ]
  /\ result' = [ r \in Ranks |-> Result(op, << >>, "ok", << >>) ]
  /\ UNCHANGED << topology, par_vars, proxy_nodes_, pool, local_nodes_, n_gsd_, nodes_vec_, wfr_nodes_vec_,
                  wfr_is_used_, nodes_vec_network_size_, num_active_nodes_, modelranges,
                  off_grid_communication, initialized >>

\* the body of the loop over the registry in post_run_cleanup() and finalize_nodes():
\* the node whose hook thread t calls for the entry at index idx, the t-th sibling of
\* a container or a plain node of thread t; null when it calls none
pass_target(pl, reg, t, idx) ==
  LET node == get_node_by_index(reg, idx)
  IN  IF node = NullPtr THEN NullPtr
      ELSE IF num_thread_siblings(pl[node]) > 0 THEN pl[node].siblings_[t + 1]
      ELSE IF pl[node].thread_ = t THEN node
      ELSE NullPtr

\* the nodes whose hook worker t of process r has called so far in its walk over the
\* registry, in the order of the calls
Reached(r, t) ==
  LET RECURSIVE Upto(_)
      Upto(i) ==
        IF i = 0 THEN << >>
        ELSE LET q == pass_target(pool[r], local_nodes_[r], t - 1, i - 1)
             IN  IF q = NullPtr THEN Upto(i - 1) ELSE Append(Upto(i - 1), q)
  IN  Upto(worker[r][t].it)

\* the passes that walk the registry
RegistryPasses == { "post_run_cleanup", "finalize_nodes" }

\* post_run_cleanup() or finalize_nodes() is called on every process: the parallel
\* region opens
BeginPass(op) ==
  /\ Sequential
  /\ \A r \in Ranks : initialized[r]
  /\ n_calls.ops < MaxOps
  /\ n_calls' = [ n_calls EXCEPT !.ops = @ + 1 ]
  /\ worker' = [ r \in Ranks |-> [ t \in 1 .. num_threads |-> [ pc |-> "walk", it |-> 0 ] ] ]
  /\ result' = [ r \in Ranks |-> Result(op, << >>, "running", << >>) ]
  /\ UNCHANGED << topology, proxy_nodes_, exceptions_raised, caller, pool, local_nodes_,
                  n_gsd_, nodes_vec_, wfr_nodes_vec_, wfr_is_used_,
                  nodes_vec_network_size_, num_active_nodes_, modelranges,
                  off_grid_communication, initialized >>

\* thread t of process r runs one iteration of its loop over the registry, or ends
\* it; the hook it calls changes nothing the manager holds
PassStep(r, t) ==
  /\ worker[r][t].pc = "walk"
  /\ worker' = [ worker EXCEPT ![r][t] =
       IF @.it >= reg_size(local_nodes_[r])
         THEN [ pc |-> "walked", it |-> @.it ]
         ELSE [ pc |-> "walk", it |-> @.it + 1 ] ]
  /\ UNCHANGED << topology, proxy_nodes_, exceptions_raised, caller, pool, local_nodes_,
                  n_gsd_, nodes_vec_, wfr_nodes_vec_, wfr_is_used_,
                  nodes_vec_network_size_, num_active_nodes_, modelranges,
                  off_grid_communication, initialized, n_calls, result >>

\* the parallel region of the pass has closed on every process: the pass returns
EndPass ==
  /\ \A r \in Ranks : \A t \in 1 .. num_threads : worker[r][t].pc = "walked"
  /\ worker' = [ r \in Ranks |-> [ t \in 1 .. num_threads |-> IdleWorker ] ]
  /\ result' = [ r \in Ranks |-> Result(result[r].op, << >>, "ok", << >>) ]
  /\ UNCHANGED << topology, proxy_nodes_, exceptions_raised, caller, pool, local_nodes_,
                  n_gsd_, nodes_vec_, wfr_nodes_vec_, wfr_is_used_,
                  nodes_vec_network_size_, num_active_nodes_, modelranges,
                  off_grid_communication, initialized, n_calls >>

\* the number of destructor calls the loops of destruct_nodes_() make on the node at
\* address q: one for every registry entry that is q, one for every sibling slot of
\* a registered node that holds q
destructor_calls(p, q) ==
  Cardinality({ i \in 1 .. Len(p.reg.nodes) : p.reg.nodes[i].node_ = q })
    + Cardinality({ ik \in UNION { { << i, k >> :
                                       k \in 1 .. Len(p.pool[p.reg.nodes[i].node_].siblings_) }
                                   : i \in 1 .. Len(p.reg.nodes) } :
                    p.pool[p.reg.nodes[ik[1]].node_].siblings_[ik[2]] = q })

\* destruct_nodes_ that leaves the registry as it is
destruct_nodes_RegistryKept(p) ==
  [ p EXCEPT
    !.pool = [ q \in DOMAIN p.pool |->
               [ p.pool[q] EXCEPT !.destructed = @ + destructor_calls(p, q) ] ] ]

\* NodeManager::destruct_nodes_() on a process: every registered node and every
\* thread sibling is destructed, the registry is cleared
destruct_nodes_(p) ==
  [ p EXCEPT
    !.pool = [ q \in DOMAIN p.pool |->
               [ p.pool[q] EXCEPT !.destructed = @ + destructor_calls(p, q) ] ],
    !.reg = EmptyRegistry ]

\* NodeManager::finalize(), called on every process
Finalize ==
  /\ \A r \in Ranks : initialized[r]
  /\ n_calls.ops < MaxOps
  /\ n_calls' = [ n_calls EXCEPT !.ops = @ + 1 ]
  /\ initialized' = [ r \in Ranks |-> FALSE ]
  /\ pool' = [ r \in Ranks |-> destruct_nodes_(Proc(r)).pool ]
  /\ local_nodes_' = [ r \in Ranks |-> destruct_nodes_(Proc(r)).reg ]
  /\ result' = [ r \in Ranks |-> Result("finalize", << >>, "ok", << >>) ]
  /\ UNCHANGED << topology, par_vars, proxy_nodes_, n_gsd_, nodes_vec_, wfr_nodes_vec_, wfr_is_used_,
                  nodes_vec_network_size_, num_active_nodes_, modelranges,
                  off_grid_communication >>

\* the manager object exists: its destructor has not run
Alive == \A r \in Ranks : result[r].op # "~NodeManager"

\* the two ways the nodes are torn down
Teardowns == { "finalize", "~NodeManager" }

\* NodeManager::finalize() or NodeManager::~NodeManager(), called on every process in
\* whatever state the manager is in: both run destruct_nodes_()
Teardown(op) ==
  /\ Alive
  /\ n_calls.ops < MaxOps
  /\ n_calls' = [ n_calls EXCEPT !.ops = @ + 1 ]
  /\ initialized' = [ r \in Ranks |-> FALSE ]
  /\ pool' = [ r \in Ranks |-> destruct_nodes_(Proc(r)).pool ]
  /\ local_nodes_' = [ r \in Ranks |-> destruct_nodes_(Proc(r)).reg ]
  /\ result' = [ r \in Ranks |-> Result(op, << >>, "ok", << >>) ]
  /\ UNCHANGED << topology, par_vars, proxy_nodes_, n_gsd_, nodes_vec_, wfr_nodes_vec_,
                  wfr_is_used_, nodes_vec_network_size_, num_active_nodes_, modelranges,
                  off_grid_communication >>

---------------------------------------------------------------------------
(* Specifications *)

\* construction, the view cache, set_status, the passes and teardown
Next ==
  \/ Initialize
  \/ \E mod \in NodeModels, n \in FewCounts : AddNode(mod, n)
  \/ EnsureValid
  \/ \E gid \in LookupGids, b \in BOOLEAN : SetStatus(gid, [ frozen |-> b ])
  \/ ResetNodesState
  \/ PrepareNodes
  \/ NodePass("post_run_cleanup")
  \/ NodePass("finalize_nodes")
  \/ Finalize

Spec == Init /\ [][Next]_vars

\* allocation alone, with every kind of argument
NextAlloc ==
  \/ Initialize
  \/ \E mod \in ModelIds, n \in Counts : AddNode(mod, n)

SpecAlloc == Init /\ [][NextAlloc]_vars

\* allocation and lookup
NextLookup ==
  \/ Initialize
  \/ \E mod \in NodeModels, n \in FewCounts : AddNode(mod, n)
  \/ \E n \in LookupGids, thr \in LookupThreads : GetNode(n, thr)
  \/ \E n \in LookupGids : GetThreadSiblings(n)

SpecLookup == Init /\ [][NextLookup]_vars

\* allocation and the view cache
NextCache ==
  \/ Initialize
  \/ \E mod \in NodeModels, n \in FewCounts : AddNode(mod, n)
  \/ EnsureValid
  \/ Finalize

SpecCache == Init /\ [][NextCache]_vars

\* allocation, the view cache, reset and the threads of prepare_nodes, interleaved
NextPrepare ==
  \/ Sequential /\ Initialize
  \/ \E mod \in ParallelModels, n \in FewCounts : Sequential /\ AddNode(mod, n)
  \/ Sequential /\ EnsureValid
  \/ BeginPrepare
  \/ \E r \in Ranks, t \in 1 .. num_threads : PrepareStep(r, t)
  \/ EndPrepare

SpecPrepare == InitParallel /\ [][NextPrepare]_vars

\* the same with nodes frozen by set_status before the pass
NextActive ==
  \/ Sequential /\ Initialize
  \/ \E mod \in ParallelModels, n \in FewCounts : Sequential /\ AddNode(mod, n)
  \/ Sequential /\ EnsureValid
  \/ \E gid \in LookupGids : Sequential /\ SetStatus(gid, [ frozen |-> TRUE ])
  \/ BeginPrepare
  \/ \E r \in Ranks, t \in 1 .. num_threads : PrepareStep(r, t)
  \/ EndPrepare

SpecActive == InitParallel /\ [][NextActive]_vars

\* allocation, the view cache, teardown and the threads of the three passes,
\* interleaved
NextPasses ==
  \/ Sequential /\ Initialize
  \/ \E mod \in ParallelModels, n \in FewCounts : Sequential /\ AddNode(mod, n)
  \/ Sequential /\ EnsureValid
  \/ Sequential /\ Finalize
  \/ BeginPrepare
  \/ \E r \in Ranks, t \in 1 .. num_threads : PrepareStep(r, t)
  \/ EndPrepare
  \/ \E op \in RegistryPasses : BeginPass(op)
  \/ \E r \in Ranks, t \in 1 .. num_threads : PassStep(r, t)
  \/ EndPass

SpecPasses == InitParallel /\ [][NextPasses]_vars

\* the stepping of the has_proxies branch alone, for every GID and every range
NextStride ==
  \/ \E curr_gid \in StrideGids : NextLocalGid(curr_gid)
  \/ \E min_gid, max_gid \in StrideGids : ProxiesLoopRange(min_gid, max_gid)

SpecStride == InitStride /\ [][NextStride]_vars

\* construction, allocation, teardown by finalize() and by the destructor, and
\* initialize() again after finalize()
NextTeardown ==
  \/ Alive /\ Initialize
  \/ \E mod \in NodeModels \cup { 0 }, n \in FewCounts : Alive /\ AddNode(mod, n)
  \/ \E op \in Teardowns : Teardown(op)

SpecTeardown == Init /\ [][NextTeardown]_vars

\* allocation and restore_nodes
NextRestore ==
  \/ Initialize
  \/ \E mod \in ParallelModels, n \in FewCounts : AddNode(mod, n)
  \/ \E node_list \in RecordLists : RestoreNodes(node_list)

SpecRestore == Init /\ [][NextRestore]_vars

\* the ranks and thread numbers of the topologies with interleaved threads
ParallelRanks == UNION { 0 .. (tp[1] + tp[2] - 1) : tp \in ParallelTopologies }
ParallelThreads == UNION { 1 .. tp[3] : tp \in ParallelTopologies }

\* allocation and the threads of concurrent calls of ensure_valid_thread_local_ids
NextRebuild ==
  \/ Sequential /\ Initialize
  \/ \E mod \in ParallelModels, n \in FewCounts : Sequential /\ AddNode(mod, n)
  \/ \E k \in ParallelThreads : BeginEnsureValid(k)
  \/ \E r \in Ranks, t \in 1 .. num_threads : EnsureValidStep(r, t)
  \/ EndEnsureValid

\* the threads inside ensure_valid_thread_local_ids keep running: as long as some
\* thread can take a step, a step is taken
SpecRebuild ==
  /\ InitParallel
  /\ [][NextRebuild]_vars
  /\ WF_vars(\E r \in Ranks, t \in 1 .. num_threads : EnsureValidStep(r, t))

---------------------------------------------------------------------------
(* Properties of add_node *)

\* the call that led to this state, on process rank
IsCall(rank, op) == result[rank].op = op
Succeeded(rank) == result[rank].outcome = "ok"

\* the GIDs with a materialized entry in a registry
LocalGids(reg) == { reg.nodes[i].gid_ : i \in 1 .. Len(reg.nodes) }

\* C1: a successful add_node( mod, n ) returns the n contiguous GIDs that start at
\* the registry's max-GID before the call plus one, and leaves the registry's max-GID
\* at the last GID of that range, on every process and in every placement branch.
C1_RangeFollowsMaxGid ==
  [][ \A r \in Ranks :
        (result'[r].op = "add_node" /\ result'[r].outcome = "ok") =>
          /\ result'[r].ret[1] = get_max_gid(local_nodes_[r]) + 1
          /\ result'[r].ret[2] = result'[r].ret[1] + result'[r].args[2] - 1
          /\ get_max_gid(local_nodes_'[r]) = result'[r].ret[2]
          /\ \A g \in LocalGids(local_nodes_'[r]) \ LocalGids(local_nodes_[r]) :
               result'[r].ret[1] <= g /\ g <= result'[r].ret[2] ]_vars

\* a second add_node succeeded and on some process none of its GIDs is local
C1_Witness ==
  /\ n_calls.add = 2
  /\ \E r \in Ranks :
       /\ IsCall(r, "add_node") /\ Succeeded(r)
       /\ result[r].ret[1] > 1
       /\ result[r].ret[2] > result[r].ret[1]
       /\ \A g \in LocalGids(local_nodes_[r]) : g < result[r].ret[1]

\* how add_node( mod, n ) has to end on a registry whose max-GID is m
ExpectedOutcome(m, mod, n) ==
  IF mod \notin 0 .. (get_num_node_models - 1) THEN "UnknownModelID"
  ELSE IF n < 1 THEN "BadProperty"
  ELSE IF m + 1 + n > MaxSize \/ m + 1 + n >= IndexModulus THEN "OutOfMemory"
  ELSE "ok"

\* C2: add_node fails with UnknownModelID for an unregistered model, BadProperty for
\* n < 1 and OutOfMemory when min_gid + n exceeds the capacity or wraps around, and a
\* failing call leaves nodes, registry, model ranges, n_gsd_ and the off-grid flag as
\* they were.
C2_FailuresChangeNothing ==
  [][ \A r \in Ranks :
        result'[r].op = "add_node" =>
          /\ result'[r].outcome =
               ExpectedOutcome(get_max_gid(local_nodes_[r]), result'[r].args[1],
                               result'[r].args[2])
          /\ result'[r].outcome # "ok" =>
               /\ pool'[r] = pool[r]
               /\ local_nodes_'[r] = local_nodes_[r]
               /\ modelranges'[r] = modelranges[r]
               /\ n_gsd_'[r] = n_gsd_[r]
               /\ off_grid_communication'[r] = off_grid_communication[r] ]_vars

\* an add_node on a non-empty registry failed because max_gid wrapped around
C2_Witness ==
  \E r \in Ranks :
    /\ IsCall(r, "add_node")
    /\ result[r].outcome = "OutOfMemory"
    /\ result[r].args[2] = IndexModulus - 1
    /\ Len(local_nodes_[r].nodes) > 0

\* C4: after add_node of a has_proxies model the GIDs of the new range with an entry
\* in a process's registry are exactly the GIDs of the range whose placement is a
\* virtual process of that process.
C4_LocalGidsArePlacedGids ==
  \A r \in Ranks :
    (IsCall(r, "add_node") /\ Succeeded(r) /\ get_model(result[r].args[1]).has_proxies) =>
      { g \in LocalGids(local_nodes_[r]) : g >= result[r].ret[1] }
        = { g \in result[r].ret[1] .. result[r].ret[2] : is_local_vp(r, suggest_vp(g)) }

\* a has_proxies range that starts at a GID of another process and holds two GIDs of
\* this process, with three simulation processes
C4_Witness ==
  \E r \in Ranks :
    /\ IsCall(r, "add_node") /\ Succeeded(r) /\ get_model(result[r].args[1]).has_proxies
    /\ num_sim_procs = 3
    /\ ~ is_local_vp(r, suggest_vp(result[r].ret[1]))
    /\ Cardinality({ g \in LocalGids(local_nodes_[r]) : g >= result[r].ret[1] }) = 2

\* the scenario of C5: two processes with two threads each, the first add_node of
\* the run creates 5 nodes of a has_proxies model
C5_Scenario ==
  /\ topology = << 2, 0, 2 >>
  /\ n_calls.add = 1
  /\ \A r \in Ranks :
       /\ IsCall(r, "add_node") /\ Succeeded(r)
       /\ get_model(result[r].args[1]).has_proxies
       /\ result[r].args[2] = 5

\* C5 as stated: in the scenario the range is [1,6) and process 1 reports max-GID 6.
C5_AsStated ==
  C5_Scenario =>
    /\ result[1].ret[1] = 1 /\ result[1].ret[2] + 1 = 6
    /\ get_max_gid(local_nodes_[1]) = 6

\* C5 amended: in the scenario the range is [1,6) and process 1 reports max-GID 5,
\* the last GID of the range.
C5_MaxGidIsLastGid ==
  C5_Scenario =>
    /\ result[1].ret[1] = 1 /\ result[1].ret[2] + 1 = 6
    /\ get_max_gid(local_nodes_[1]) = 5

\* the scenario of C5 has happened and process 1 holds some of the five nodes
C5_Witness ==
  /\ C5_Scenario
  /\ LocalGids(local_nodes_[1]) = { 1, 3, 5 }

\* the number of GIDs the global-receiver branch has allocated so far on process r,
\* from the ranges of the model range manager
GlobalReceiverGids(r) ==
  LET RECURSIVE Sum(_)
      Sum(i) ==
        IF i = 0 THEN 0
        ELSE Sum(i - 1)
               + (IF Branch(modelranges[r][i].model) = "global_receiver"
                    THEN modelranges[r][i].last - modelranges[r][i].first + 1
                    ELSE 0)
  IN  Sum(Len(modelranges[r]))

\* the recording virtual processes, in the order of their numbers
RecordingVPs ==
  (num_sim_procs * num_threads) .. ((num_sim_procs + num_rec_procs) * num_threads - 1)

\* C23: with at least one recording process and across every sequence of add_node
\* calls, the counter of global receivers is the number of global-receiver GIDs
\* allocated so far, the same on every process; the k-th such GID, k counted from 0,
\* goes to the recording virtual process chosen round-robin by k; the process that
\* hosts it materializes the node, with that virtual process and its thread on that
\* process, and every other process holds no entry for the GID and keeps it as a
\* remote marker in its max-GID.
C23_GlobalReceiversRoundRobin ==
  [][ \A r \in Ranks :
        /\ n_gsd_[r] = n_gsd_[0]
        /\ num_rec_procs > 0 => n_gsd_[r] = GlobalReceiverGids(r)
        /\ (result'[r].op = "add_node" /\ result'[r].outcome = "ok"
              /\ Branch(result'[r].ret[3]) = "global_receiver") =>
             /\ n_gsd_'[r] = n_gsd_[r] + result'[r].args[2]
             /\ \A g \in result'[r].ret[1] .. result'[r].ret[2] :
                  LET k == n_gsd_[r] + (g - result'[r].ret[1])
                      vp == num_sim_procs * num_threads
                              + (k % Cardinality(RecordingVPs))
                      ptr == get_node_by_gid(local_nodes_'[r], g)
                  IN  /\ vp \in RecordingVPs
                      /\ get_process_id(vp) >= num_sim_procs
                      /\ get_process_id(vp) = r =>
                           /\ ptr # NullPtr
                           /\ pool'[r][ptr].gid_ = g
                           /\ pool'[r][ptr].vp_ = vp
                           /\ pool'[r][ptr].thread_ \in Threads
                           /\ thread_to_vp(r, pool'[r][ptr].thread_) = vp
                           /\ num_thread_siblings(pool'[r][ptr]) = 0
                      /\ get_process_id(vp) # r =>
                           /\ ptr = NullPtr
                           /\ get_max_gid(local_nodes_'[r]) >= g ]_vars

\* a second add_node of global receivers has gone round the recording virtual
\* processes once more: the recording process holds the new GIDs on two of its
\* threads, and a simulation process keeps them as remote markers
C23_Witness ==
  /\ num_rec_procs > 0
  /\ n_calls.add = 2
  /\ n_gsd_[0] > Cardinality(RecordingVPs)
  /\ \E r, q \in Ranks :
       /\ IsCall(r, "add_node") /\ Succeeded(r)
       /\ Branch(result[r].ret[3]) = "global_receiver"
       /\ result[r].ret[1] > 1
       /\ \E g, h \in result[r].ret[1] .. result[r].ret[2] :
            /\ get_node_by_gid(local_nodes_[r], g) # NullPtr
            /\ get_node_by_gid(local_nodes_[r], h) # NullPtr
            /\ pool[r][get_node_by_gid(local_nodes_[r], g)].thread_
                 # pool[r][get_node_by_gid(local_nodes_[r], h)].thread_
            /\ get_node_by_gid(local_nodes_[q], g) = NullPtr
            /\ get_max_gid(local_nodes_[q]) >= h

\* the GIDs of [ lo, hi ) that are congruent to rank modulo the number of simulation
\* processes, in ascending order
RECURSIVE CongruentGids(_, _, _)
CongruentGids(rank, lo, hi) ==
  IF lo >= hi THEN << >>
  ELSE (IF lo % num_sim_procs = rank THEN << lo >> ELSE << >>)
         \o CongruentGids(rank, lo + 1, hi)

\* C24: for every number of simulation processes, every rank and every GID g, on a
\* simulation process next_local_gid_( g ) is the smallest GID greater than g that is
\* congruent to the rank modulo the number of simulation processes, and on a
\* recording process it is g plus that number; it is always greater than g.  The
\* has_proxies loop over a range therefore visits, on a simulation process, exactly
\* the locally owned GIDs of the range from the first one at or after min_gid, in
\* ascending order, and on every process it visits increasing GIDs below max_gid and
\* ends.
C24_NextLocalGidStride ==
  \A r \in Ranks :
    /\ IsCall(r, "next_local_gid_") =>
         LET g == result[r].args[1]
             v == result[r].ret[1]
         IN  /\ v > g
             /\ r < num_sim_procs =>
                  /\ v % num_sim_procs = r
                  /\ \A h \in (g + 1) .. (v - 1) : h % num_sim_procs # r
             /\ r >= num_sim_procs => v = g + num_sim_procs
    /\ IsCall(r, "has_proxies_loop") =>
         LET visits == result[r].ret
         IN  /\ \A i \in 1 .. Len(visits) :
                  /\ visits[i] >= result[r].args[1] /\ visits[i] < result[r].args[2]
                  /\ i > 1 => visits[i - 1] < visits[i]
             /\ r < num_sim_procs =>
                  /\ visits = CongruentGids(r, result[r].args[1], result[r].args[2])
                  /\ \A i \in 1 .. Len(visits) : is_local_vp(r, suggest_vp(visits[i]))

\* with three simulation processes the loop started at a GID that is not local and
\* visited two local GIDs, and on a recording process it visited GIDs none of which
\* is local
C24_Witness ==
  /\ num_sim_procs = 3 /\ num_rec_procs > 0
  /\ \E r \in Ranks :
       /\ r < num_sim_procs
       /\ IsCall(r, "has_proxies_loop")
       /\ ~ is_local_vp(r, suggest_vp(result[r].args[1]))
       /\ Len(result[r].ret) = 2
  /\ \E r \in Ranks :
       /\ r >= num_sim_procs
       /\ Len(result[r].ret) >= 2

---------------------------------------------------------------------------
(* Properties of placement, SiblingContainers and lookup *)

\* every registered node of a has_proxies model sits where the placement function
\* puts its GID
PlacementHolds(pl, regs) ==
  \A r \in Ranks : \A i \in 1 .. Len(regs[r].nodes) :
    LET node == pl[r][regs[r].nodes[i].node_]
    IN  (node.model_id_ # ContainerModelId /\ get_model(node.model_id_).has_proxies) =>
          /\ node.gid_ = regs[r].nodes[i].gid_
          /\ node.vp_ = suggest_vp(node.gid_)
          /\ node.thread_ = vp_to_thread(r, node.vp_)
          /\ is_local_vp(r, node.vp_)

\* C3: every locally owned node of a has_proxies model has vp = placement(gid) and
\* thread = vp_to_thread(vp), and no call of the manager changes the GID, thread or
\* virtual process of a node that has been allocated.
C3_PlacementFixedAtAllocation ==
  [][ /\ PlacementHolds(pool', local_nodes_')
      /\ \A r \in Ranks : \A q \in DOMAIN pool[r] :
           /\ q \in DOMAIN pool'[r]
           /\ pool'[r][q].gid_ = pool[r][q].gid_
           /\ pool'[r][q].thread_ = pool[r][q].thread_
           /\ pool'[r][q].vp_ = pool[r][q].vp_ ]_vars

\* a node of a has_proxies model on thread 1 has been frozen by set_status and then
\* listed by a rebuild of the view cache
C3_Witness ==
  \E r \in Ranks : \E i \in 1 .. Len(local_nodes_[r].nodes) :
    LET node == pool[r][local_nodes_[r].nodes[i].node_]
    IN  /\ node.model_id_ # ContainerModelId /\ get_model(node.model_id_).has_proxies
        /\ node.thread_ = 1
        /\ node.frozen_
        /\ node.thread_lid_ # invalid_index

\* the GIDs of the range the last add_node returned are SiblingContainers on process
\* r, each with one sibling per thread that get_node finds
RangeIsReplicated(r) ==
  \A g \in result[r].ret[1] .. result[r].ret[2] :
    LET c == get_node_by_gid(local_nodes_[r], g)
    IN  /\ c # NullPtr
        /\ pool[r][c].model_id_ = ContainerModelId
        /\ pool[r][c].gid_ = g
        /\ Len(pool[r][c].siblings_) = num_threads
        /\ \A t \in Threads :
             LET sib == pool[r][pool[r][c].siblings_[t + 1]]
             IN  /\ sib.gid_ = g
                 /\ sib.thread_ = t
                 /\ sib.vp_ = thread_to_vp(r, t)
                 /\ sib.model_id_ = result[r].args[1]
        /\ \A t \in Threads :
             /\ get_node(Proc(r), g, t).outcome = "node"
             /\ pool[r][get_node(Proc(r), g, t).ret[1]].gid_ = g
        /\ \A t, u \in Threads :
             t # u => get_node(Proc(r), g, t).ret # get_node(Proc(r), g, u).ret

\* exactly the new GIDs are new entries of the registry of process r
RangeIsRegistered(r) ==
  { g \in LocalGids(local_nodes_[r]) : g >= result[r].ret[1] }
    = result[r].ret[1] .. result[r].ret[2]

\* in every registry, nodes that are not containers have no siblings
PlainNodesHaveNoSiblings ==
  \A r \in Ranks : \A q \in DOMAIN pool[r] :
    pool[r][q].model_id_ # ContainerModelId => Len(pool[r][q].siblings_) = 0

\* C6 as stated: add_node of n instances of any model without proxies that is not
\* one-node-per-process creates n SiblingContainers on every process, each with one
\* sibling per thread; plain nodes have no siblings.
C6_AsStated ==
  /\ PlainNodesHaveNoSiblings
  /\ \A r \in Ranks :
       (/\ IsCall(r, "add_node") /\ Succeeded(r)
        /\ ~ get_model(result[r].args[1]).has_proxies
        /\ ~ get_model(result[r].args[1]).one_node_per_process)
       => (RangeIsRegistered(r) /\ RangeIsReplicated(r))

\* C6 amended: the same for every such model that is not placed as a global receiver
\* (it is no potential global receiver, or there is no recording process).
C6_ReplicatedPerThread ==
  /\ PlainNodesHaveNoSiblings
  /\ \A r \in Ranks :
       (/\ IsCall(r, "add_node") /\ Succeeded(r)
        /\ ~ get_model(result[r].args[1]).has_proxies
        /\ ~ get_model(result[r].args[1]).one_node_per_process
        /\ ~ (get_model(result[r].args[1]).potential_global_receiver
              /\ num_rec_procs > 0))
       => (RangeIsRegistered(r) /\ RangeIsReplicated(r))

\* two containers of a model without proxies were created on two-thread processes,
\* one of them a recording process
C6_Witness ==
  /\ num_threads = 2 /\ num_rec_procs > 0
  /\ \A r \in Ranks :
       /\ IsCall(r, "add_node") /\ Succeeded(r)
       /\ Branch(result[r].args[1]) = "siblings"
       /\ result[r].args[2] = 2
       /\ RangeIsReplicated(r)

\* what get_node( n, thr ) has to return on a registry and its pool
GetNodeContract(res, reg, pl) ==
  LET n == res.args[1]
      thr == res.args[2]
      entries == { i \in 1 .. Len(reg.nodes) : reg.nodes[i].gid_ = n }
  IN  IF entries = {}
        THEN res.outcome = "proxy"
      ELSE \A i \in entries :
        LET ptr == reg.nodes[i].node_
        IN  IF pl[ptr].model_id_ # ContainerModelId
              THEN res.outcome = "node" /\ res.ret = << ptr >>
            ELSE IF 0 <= thr /\ thr < Len(pl[ptr].siblings_)
              THEN res.outcome = "node" /\ res.ret = << pl[ptr].siblings_[thr + 1] >>
            ELSE res.outcome = "UnknownNode"

\* C7: get_node( gid, thr ) changes no state; it returns the proxy for a GID without
\* local entry, the node for a local plain node, sibling thr of a local container when
\* 0 <= thr < number of siblings, and throws UnknownNode for any other thr.
C7_GetNodeContract ==
  [][ \A r \in Ranks :
        result'[r].op = "get_node" =>
          /\ GetNodeContract(result'[r], local_nodes_[r], pool[r])
          /\ UNCHANGED << topology, par_vars, proxy_nodes_, pool, local_nodes_, n_gsd_, nodes_vec_,
                          wfr_nodes_vec_, wfr_is_used_, nodes_vec_network_size_,
                          num_active_nodes_, modelranges, off_grid_communication,
                          initialized, n_calls >> ]_vars

\* get_node( gid, 2 ) threw UnknownNode on a process with two threads where gid is a
\* local container
C7_Witness ==
  /\ num_threads = 2
  /\ \E r \in Ranks :
       /\ IsCall(r, "get_node")
       /\ result[r].args[2] = 2
       /\ result[r].outcome = "UnknownNode"
       /\ get_node_by_gid(local_nodes_[r], result[r].args[1]) # NullPtr

\* C8: get_thread_siblings( gid ) returns the siblings of a local container and ends
\* in the reported failure NoThreadSiblingsAvailable for every other gid: a local
\* plain node, a remote marker, a GID never allocated.
C8_SiblingsOrReportedFailure ==
  \A r \in Ranks :
    IsCall(r, "get_thread_siblings") =>
      LET c == get_node_by_gid(local_nodes_[r], result[r].args[1])
      IN  IF c # NullPtr /\ pool[r][c].model_id_ = ContainerModelId
            THEN result[r].outcome = "siblings" /\ result[r].ret = pool[r][c].siblings_
            ELSE result[r].outcome = "NoThreadSiblingsAvailable"

---------------------------------------------------------------------------
(* Properties of the view cache *)

\* the length of worker t's list on process r, 0 when the list does not exist
ListLen(vec, t) == IF t + 1 <= Len(vec) THEN Len(vec[t + 1]) ELSE 0

\* C9: an ensure_valid that directly follows an ensure_valid leaves every worker's
\* node list and relaxation list, every thread-local index and wfr_is_used_ as the
\* first call left them.
C9_RebuildIdempotent ==
  [][ \A r \in Ranks :
        (result[r].op = "ensure_valid" /\ result'[r].op = "ensure_valid") =>
          /\ nodes_vec_'[r] = nodes_vec_[r]
          /\ wfr_nodes_vec_'[r] = wfr_nodes_vec_[r]
          /\ wfr_is_used_'[r] = wfr_is_used_[r]
          /\ \A q \in DOMAIN pool[r] : pool'[r][q].thread_lid_ = pool[r][q].thread_lid_
    ]_vars

\* a rebuild that listed nodes on two workers and found relaxation in use was followed
\* by a second call that found the cache fresh
C9_Witness ==
  \E r \in Ranks :
    /\ IsCall(r, "ensure_valid") /\ result[r].outcome = "fresh"
    /\ wfr_is_used_[r]
    /\ Len(nodes_vec_[r]) = 2
    /\ Len(nodes_vec_[r][1]) > 0 /\ Len(nodes_vec_[r][2]) > 0

\* on process r the last call was a successful add_node and the view cache was
\* valid for the registry as it was before that call
AddedToValidCache(r) ==
  /\ result[r].op = "add_node" /\ result[r].outcome = "ok"
  /\ nodes_vec_network_size_[r] = result[r].ret[1] - 1
  /\ \A q \in Listed(nodes_vec_[r]) : pool[r][q].destructed = 0

\* some worker's list on process r is longer in the next state
SomeListGrows(r) ==
  \E t \in Threads : ListLen(nodes_vec_'[r], t) > ListLen(nodes_vec_[r], t)

\* C10 as stated: on every process, ensure_valid after a successful add_node on a
\* valid cache makes at least one worker's list strictly longer.
C10_AsStated ==
  [][ \A r \in Ranks :
        (AddedToValidCache(r) /\ result'[r].op = "ensure_valid") => SomeListGrows(r)
    ]_vars

\* C10 amended: the same on every process where the add_node materialized at least
\* one node of the new range.
C10_GrowsWhereMaterialized ==
  [][ \A r \in Ranks :
        (/\ AddedToValidCache(r)
         /\ \E g \in LocalGids(local_nodes_[r]) : g >= result[r].ret[1]
         /\ result'[r].op = "ensure_valid") => SomeListGrows(r)
    ]_vars

\* a second add_node has materialized a node on a process whose cache an earlier
\* rebuild had filled and which was valid until that call
C10_Witness ==
  /\ n_calls.add = 2
  /\ \E r \in Ranks :
       /\ AddedToValidCache(r)
       /\ \E g \in LocalGids(local_nodes_[r]) : g >= result[r].ret[1]
       /\ Listed(nodes_vec_[r]) # {}

\* how often x occurs in the sequence sq
Occurrences(sq, x) == Cardinality({ i \in 1 .. Len(sq) : sq[i] = x })

\* the entries of the registry of process r that worker t lists: containers, and
\* plain nodes owned by thread t
ViewEntries(r, t) ==
  { i \in 1 .. Len(local_nodes_[r].nodes) :
      LET node == pool[r][local_nodes_[r].nodes[i].node_]
      IN  Len(node.siblings_) > 0 \/ node.thread_ = t }

\* the node instance worker t lists for entry i of the registry of process r
ViewInstance(r, t, i) ==
  LET ptr == local_nodes_[r].nodes[i].node_
  IN  IF Len(pool[r][ptr].siblings_) > 0 THEN pool[r][ptr].siblings_[t + 1] ELSE ptr

\* list is ViewInstance of the entries ViewEntries( r, t ), in the order of the registry
IsViewOf(list, r, t) ==
  /\ Len(list) = Cardinality(ViewEntries(r, t))
  /\ \A i \in ViewEntries(r, t) :
       list[Cardinality({ j \in ViewEntries(r, t) : j <= i })] = ViewInstance(r, t, i)

\* the node instances process r owns: registered plain nodes and thread siblings
OwnedInstances(r) ==
  UNION { Instances(pool[r], local_nodes_[r].nodes[i].node_)
          : i \in 1 .. Len(local_nodes_[r].nodes) }

C16_ThreadLocalIndexIsPosition ==
  \A r \in Ranks : \A t \in 1 .. Len(nodes_vec_[r]) : \A i \in 1 .. Len(nodes_vec_[r][t]) :
    LET node == pool[r][nodes_vec_[r][t][i]]
    IN  node.destructed = 0 => (node.thread_lid_ = i - 1 /\ node.thread_ = t - 1)

\* after a rebuild, nodes were added, one node was frozen and the nodes were reset:
\* a sibling on the second thread still sits at position 1 of its list
C16_Witness ==
  \E r \in Ranks :
    /\ IsCall(r, "reset_nodes_state")
    /\ nodes_vec_network_size_[r] # size(local_nodes_[r])
    /\ Len(nodes_vec_[r]) = 2 /\ Len(nodes_vec_[r][2]) >= 2
    /\ pool[r][nodes_vec_[r][2][2]].thread_lid_ = 1
    /\ pool[r][nodes_vec_[r][2][2]].gid_ = 2

\* C17: on an initialized manager, whenever the size recorded at the last build of
\* the view cache equals the registry's size, the cache is valid: it holds one list
\* per thread, each list holds exactly the live nodes of its worker, and no list
\* holds a node that finalize() destructed.
C17_CacheValidWhenSizesAgree ==
  \A r \in Ranks :
    (initialized[r] /\ nodes_vec_network_size_[r] = size(local_nodes_[r])) =>
      /\ Len(nodes_vec_[r]) = num_threads
      /\ \A t \in Threads : IsViewOf(nodes_vec_[r][t + 1], r, t)
      /\ \A q \in Listed(nodes_vec_[r]) : pool[r][q].destructed = 0

---------------------------------------------------------------------------
(* Properties of the lifecycle passes *)

\* on process r, every node reset_nodes_state reaches has buffers marked initialized
\* in the next state and is once among the nodes the pass of the step prepared
ResetNodesPreparedOnce(r) ==
  \A q \in ResetSet(Proc(r)) :
    /\ pool'[r][q].buffers_initialized_
    /\ Occurrences(result'[r].ret, q) = 1

Failed(r) == { t \in 1 .. Len(exceptions_raised[r]) : exceptions_raised[r][t] # << >> }

\* the step in which prepare_nodes returns or throws on process r
PrepareEnds(r) ==
  /\ result[r].op = "prepare_nodes" /\ result[r].outcome = "running"
  /\ result'[r].outcome # "running"

\* the caller of prepare_nodes on process r receives the one captured failure
OneFailureDelivered(r) ==
  /\ result'[r].outcome = "WrappedThreadException"
  /\ \A t \in Failed(r) : result'[r].ret = exceptions_raised[r][t]

\* every node thread t of process r called prepare_node_ on without a throw has its
\* buffers marked initialized
CalledArePrepared(r, t) ==
  \A i \in 1 .. Len(Called(r, t)) :
    (exceptions_raised[r][t] = << >> \/ i < Len(Called(r, t)))
      => pool[r][Called(r, t)[i]].buffers_initialized_

\* C12 as stated: when exactly one node's preparation failed, the one failure is
\* delivered when the pass is over and every node of every thread's list, those after
\* the failing node in its own list included, has received its prepare_node_ call.
C12_AsStated ==
  [][ \A r \in Ranks :
        (PrepareEnds(r) /\ Cardinality(Failed(r)) = 1) =>
          /\ OneFailureDelivered(r)
          /\ \A t \in 1 .. num_threads :
               Called(r, t) = nodes_vec_[r][t] /\ CalledArePrepared(r, t) ]_vars

\* C12 amended: the one failure is delivered when the pass is over; every node of
\* every other thread's list and every node before the failing node in its own list
\* has received its prepare_node_ call, the failing node is the last node its thread
\* called, and the nodes after it in that list are not prepared in the pass.
C12_OthersStillPrepared ==
  [][ \A r \in Ranks :
        (PrepareEnds(r) /\ Cardinality(Failed(r)) = 1) =>
          /\ OneFailureDelivered(r)
          /\ \A t \in 1 .. num_threads :
               /\ CalledArePrepared(r, t)
               /\ t \notin Failed(r) => Called(r, t) = nodes_vec_[r][t]
               /\ t \in Failed(r) =>
                    /\ Len(Called(r, t)) >= 1
                    /\ Called(r, t)[Len(Called(r, t))] = exceptions_raised[r][t][1].node
          ]_vars

\* the pass is over, one node failed in calibrate() with a node after it in its
\* thread's list, and another thread has prepared the two nodes of its list
C12_Witness ==
  \E r \in Ranks :
    /\ \A t \in 1 .. num_threads : worker[r][t].pc = "done"
    /\ Cardinality(Failed(r)) = 1
    /\ \E t \in Failed(r) :
         /\ Len(Called(r, t)) < Len(nodes_vec_[r][t])
         /\ exceptions_raised[r][t][1].what = "calibrate"
    /\ \E t \in 1 .. num_threads :
         /\ t \notin Failed(r)
         /\ Len(nodes_vec_[r][t]) = 2
         /\ Called(r, t) = nodes_vec_[r][t]

\* C20: in prepare_nodes, whatever the interleaving of the threads and whichever
\* nodes fail: no failure reaches the caller before every thread has finished its
\* pass; a thread that did not fail itself has walked its whole list; an exception
\* slot is written at most once, by its own thread; the failure the caller receives
\* is that of the lowest-numbered thread that failed.
C20_FailuresAfterThePass ==
  [][ \A r \in Ranks :
        /\ PrepareEnds(r) =>
             /\ \A t \in 1 .. num_threads : worker[r][t].pc = "done"
             /\ \A t \in 1 .. num_threads :
                  t \notin Failed(r) => Called(r, t) = nodes_vec_[r][t]
             /\ Failed(r) = {} => result'[r].outcome = "ok"
             /\ Failed(r) # {} =>
                  /\ result'[r].outcome = "WrappedThreadException"
                  /\ \E t \in Failed(r) :
                       /\ \A u \in Failed(r) : t <= u
                       /\ result'[r].ret = exceptions_raised[r][t]
        /\ (result[r].outcome = "running" /\ result'[r].outcome = "running") =>
             \A t \in 1 .. num_threads :
               exceptions_raised'[r][t] # exceptions_raised[r][t] =>
                 /\ exceptions_raised[r][t] = << >>
                 /\ worker[r][t].pc = "loop" /\ worker'[r][t].pc = "done"
                 /\ \A u \in 1 .. num_threads :
                      u # t => /\ worker'[r][u] = worker[r][u]
                               /\ exceptions_raised'[r][u] = exceptions_raised[r][u]
    ]_vars

\* the pass is over and two slots are valid: thread 1 failed at the second node of
\* its list, thread 2 at another node
C20_Witness ==
  \E r \in Ranks :
    /\ \A t \in 1 .. num_threads : worker[r][t].pc = "done"
    /\ { 1, 2 } \subseteq Failed(r)
    /\ exceptions_raised[r][1][1].node # exceptions_raised[r][2][1].node
    /\ Len(Called(r, 1)) = 2

\* C21: when prepare_nodes completes without failure, whatever the interleaving of the
\* threads, the count of active nodes it publishes is the number of nodes in the
\* lists of all threads that are not frozen; frozen nodes are prepared like the
\* others (their buffers are marked initialized) and are not counted.
C21_ActiveCountIsNonFrozen ==
  [][ \A r \in Ranks :
        (PrepareEnds(r) /\ result'[r].outcome = "ok") =>
          /\ num_active_nodes_'[r] =
               Cardinality({ q \in Listed(nodes_vec_[r]) : ~ pool[r][q].frozen_ })
          /\ \A q \in Listed(nodes_vec_[r]) : pool'[r][q].buffers_initialized_ ]_vars

\* a pass over two threads has ended without failure on lists that hold a frozen
\* node, prepared, and nodes that are not frozen
C21_Witness ==
  \E r \in Ranks :
    /\ IsCall(r, "prepare_nodes") /\ Succeeded(r)
    /\ num_threads >= 2
    /\ \E q \in Listed(nodes_vec_[r]) :
         pool[r][q].frozen_ /\ pool[r][q].buffers_initialized_
    /\ num_active_nodes_[r] >= 2
    /\ num_active_nodes_[r] < Cardinality(Listed(nodes_vec_[r]))

\* the step in which post_run_cleanup() or finalize_nodes() returns on process r
PassEnds(r) ==
  /\ result[r].op \in RegistryPasses /\ result[r].outcome = "running"
  /\ result'[r].outcome = "ok"

\* calls[t] being the nodes whose hook worker t called: every node instance process r
\* owns had its hook called once, by the worker of its owning thread and by no other
HookedOnceByOwner(r, calls) ==
  \A q \in OwnedInstances(r) : \A t \in 1 .. num_threads :
    Occurrences(calls[t], q) = (IF pool[r][q].thread_ = t - 1 THEN 1 ELSE 0)

\* the list of worker t in the view cache of process r, empty when the cache holds no
\* list for t
ListOfWorker(r, t) == IF t <= Len(nodes_vec_[r]) THEN nodes_vec_[r][t] ELSE << >>

\* C22: in every pass, whatever the interleaving of the threads, every node instance
\* the process owns receives the hook of the pass once, from the worker of its
\* owning thread and from no other: in a prepare pass (taken where it runs to its
\* end on a valid view cache), in post_run_cleanup and in finalize_nodes; and the
\* nodes worker t reaches in the walks over the registry of post_run_cleanup and
\* finalize_nodes are the nodes of worker t's list whenever the view cache is valid,
\* that is, whenever the size recorded at its last build is the registry's size.
C22_EachInstanceOnceByItsOwner ==
  [][ \A r \in Ranks :
        /\ (PrepareEnds(r) /\ result'[r].outcome = "ok"
              /\ nodes_vec_network_size_[r] = size(local_nodes_[r]))
           => HookedOnceByOwner(r, [ t \in 1 .. num_threads |-> Called(r, t) ])
        /\ PassEnds(r) =>
             /\ HookedOnceByOwner(r, [ t \in 1 .. num_threads |-> Reached(r, t) ])
             /\ nodes_vec_network_size_[r] = size(local_nodes_[r]) =>
                  \A t \in 1 .. num_threads : Reached(r, t) = ListOfWorker(r, t)
    ]_vars

---------------------------------------------------------------------------
(* Properties of restore_nodes and set_status *)

\* the GID restore_nodes gave the i-th record on process r, seen from the step
RestoredGid(r, i) == get_max_gid(local_nodes_[r]) + i

\* the node instances process r holds for GID g in the next state: the plain node or
\* the thread siblings of the container
NewInstances(r, g) ==
  IF get_node_by_gid(local_nodes_'[r], g) = NullPtr THEN {}
  ELSE Instances(pool'[r], get_node_by_gid(local_nodes_'[r], g))

\* C13: a restore_nodes of k records that returns gives the i-th record the GID old
\* max-GID + i and raises the max-GID by k; the node created for a record is of the
\* record's model and has the record's properties; no node that existed before, no
\* node created for another record and no proxy node is changed; an empty list
\* changes nothing.
C13_RestoreTouchesOnlyNewNodes ==
  [][ \A r \in Ranks :
        (result'[r].op = "restore_nodes" /\ result'[r].outcome = "ok") =>
          LET node_list == result'[r].args[1]
              k == Len(node_list)
          IN  /\ get_max_gid(local_nodes_'[r]) = get_max_gid(local_nodes_[r]) + k
              /\ \A i \in 1 .. k :
                   LET target == get_node([ pool |-> pool'[r], reg |-> local_nodes_'[r] ],
                                          RestoredGid(r, i), 0)
                   IN  target.outcome = "node" =>
                         /\ pool'[r][target.ret[1]].frozen_ = node_list[i].frozen
                         /\ pool'[r][target.ret[1]].model_id_ = get_model_id(node_list[i].model)
              /\ \A i \in 1 .. k : \A q \in NewInstances(r, RestoredGid(r, i)) :
                   pool'[r][q].frozen_ => node_list[i].frozen
              /\ \A q \in DOMAIN pool[r] : pool'[r][q] = pool[r][q]
              /\ proxy_nodes_'[r] = proxy_nodes_[r]
              /\ k = 0 => UNCHANGED << pool, local_nodes_, n_gsd_, modelranges,
                                      off_grid_communication, nodes_vec_, wfr_nodes_vec_,
                                      wfr_is_used_, nodes_vec_network_size_ >> ]_vars

\* C14: set_status( gid, d ) on a GID without local entry raises no error and changes
\* nothing; on a local GID it changes only the plain node of that GID or thread
\* siblings of its container, and never the registry, the view cache or another node.
C14_SetStatusFrame ==
  [][ \A r \in Ranks :
        result'[r].op = "set_status" =>
          LET gid == result'[r].args[1]
              target == get_node_by_gid(local_nodes_[r], gid)
          IN  /\ target = NullPtr => (result'[r].outcome = "ok" /\ pool'[r] = pool[r])
              /\ \A q \in DOMAIN pool[r] :
                   pool'[r][q] # pool[r][q] =>
                     /\ target # NullPtr
                     /\ pool[r][q].gid_ = gid
                     /\ pool[r][q].model_id_ # ContainerModelId
                     /\ (q = target \/ \E i \in 1 .. Len(pool[r][target].siblings_) :
                                         pool[r][target].siblings_[i] = q)
              /\ DOMAIN pool'[r] = DOMAIN pool[r]
              /\ local_nodes_'[r] = local_nodes_[r]
              /\ nodes_vec_'[r] = nodes_vec_[r]
              /\ wfr_nodes_vec_'[r] = wfr_nodes_vec_[r]
              /\ wfr_is_used_'[r] = wfr_is_used_[r]
              /\ nodes_vec_network_size_'[r] = nodes_vec_network_size_[r]
              /\ n_gsd_'[r] = n_gsd_[r]
              /\ num_active_nodes_'[r] = num_active_nodes_[r]
              /\ modelranges'[r] = modelranges[r]
              /\ proxy_nodes_'[r] = proxy_nodes_[r] ]_vars

\* set_status froze both thread siblings of a container that is not the first entry
\* of the registry, on a process where another GID is not local
C14_Witness ==
  \E r \in Ranks :
    /\ IsCall(r, "set_status")
    /\ \E i \in 2 .. Len(local_nodes_[r].nodes) :
         LET c == pool[r][local_nodes_[r].nodes[i].node_]
         IN  /\ local_nodes_[r].nodes[i].gid_ = result[r].args[1]
             /\ Len(c.siblings_) = 2
             /\ \A k \in 1 .. 2 : pool[r][c.siblings_[k]].frozen_
             /\ ~ c.frozen_
    /\ \E g \in 1 .. get_max_gid(local_nodes_[r]) :
         get_node_by_gid(local_nodes_[r], g) = NullPtr

---------------------------------------------------------------------------
(* Properties of concurrent calls of ensure_valid_thread_local_ids *)

\* every call of the region on process r has returned
AllReturned(r) ==
  /\ \A t \in 1 .. num_threads : caller[r].pc[t] \in { "idle", "returned" }
  /\ \E t \in 1 .. num_threads : caller[r].pc[t] = "returned"

\* at most one thread is inside the rebuild body, and when all calls made on a stale
\* cache have returned the body has run once
OneRebuild ==
  \A r \in Ranks :
    /\ Cardinality(InCritical(r)) <= 1
    /\ caller[r].rebuilds <= 1
    /\ AllReturned(r) => caller[r].rebuilds = (IF caller[r].stale THEN 1 ELSE 0)

\* thread t of process r is inside a call of ensure_valid_thread_local_ids
Calling(r, t) ==
  r \in Ranks /\ t <= num_threads /\ caller[r].pc[t] \notin { "idle", "returned" }

\* C18: when threads call ensure_valid concurrently on a stale cache and the registry
\* does not change, at most one thread is inside the rebuild body at any time, the
\* body runs exactly once in total, and every call returns.
C18_OneRebuildAllReturn ==
  /\ []OneRebuild
  /\ \A r \in ParallelRanks, t \in ParallelThreads : Calling(r, t) ~> ~ Calling(r, t)

\* three threads called on a stale cache, one rebuilt, and all three have returned
C18_Witness ==
  \E r \in Ranks :
    /\ num_threads = 3
    /\ \A t \in 1 .. 3 : caller[r].pc[t] = "returned"
    /\ caller[r].stale /\ caller[r].rebuilds = 1
    /\ Len(local_nodes_[r].nodes) >= 2

\* the relaxation list of worker t of process r holds the plain nodes of t's list
\* that use relaxation
WfrListComplete(r, t) ==
  \A k \in 1 .. Len(nodes_vec_[r][t + 1]) :
    LET q == nodes_vec_[r][t + 1][k]
    IN  (pool[r][q].node_uses_wfr_ /\ q \in { local_nodes_[r].nodes[i].node_
                                                : i \in 1 .. Len(local_nodes_[r].nodes) })
          => Occurrences(wfr_nodes_vec_[r][t + 1], q) = 1

\* the rebuild for the registry of process r is complete
RebuildComplete(r) ==
  /\ nodes_vec_network_size_[r] = size(local_nodes_[r])
  /\ Len(nodes_vec_[r]) = num_threads /\ Len(wfr_nodes_vec_[r]) = num_threads
  /\ \A t \in Threads : IsViewOf(nodes_vec_[r][t + 1], r, t) /\ WfrListComplete(r, t)
  /\ wfr_is_used_[r] = \E t \in 1 .. num_threads : Len(wfr_nodes_vec_[r][t]) > 0

\* C19: when threads call ensure_valid concurrently on a stale cache and the registry
\* does not change, at the moment any of the calls returns, by the test before the
\* critical region or through it, the rebuild is complete: every list and relaxation
\* list is filled and wfr_is_used_ is the OR over the workers' relaxation lists.
C19_ReturnMeansComplete ==
  [][ \A r \in Ranks : \A t \in 1 .. num_threads :
        (caller[r].stale /\ caller[r].pc[t] # "returned" /\ caller'[r].pc[t] = "returned")
          => RebuildComplete(r)' ]_vars

---------------------------------------------------------------------------
(* Properties of teardown *)

\* the node instances the registry of process r leads to: the registered nodes,
\* SiblingContainers among them, and the thread siblings of the containers
Registered(r) ==
  UNION { Instances(pool[r], local_nodes_[r].nodes[i].node_)
            \cup { local_nodes_[r].nodes[i].node_ }
          : i \in 1 .. Len(local_nodes_[r].nodes) }

\* C25: across every sequence of initialize, add_node, finalize, initialize again and
\* destruction of the manager, no allocated node instance (plain node, container or
\* thread sibling) is destructed twice; an instance that has not been destructed is
\* still registered, so that the next teardown reaches it; and after a teardown the
\* registry is empty and every instance allocated so far has been destructed exactly
\* once, whether or not a teardown went before.
C25_DestructedExactlyOnce ==
  \A r \in Ranks :
    /\ \A q \in DOMAIN pool[r] :
         /\ pool[r][q].destructed <= 1
         /\ pool[r][q].destructed = 0 <=> q \in Registered(r)
    /\ result[r].op \in Teardowns =>
         /\ local_nodes_[r] = EmptyRegistry
         /\ \A q \in DOMAIN pool[r] : pool[r][q].destructed = 1

\* the destructor has run as the second teardown of a run with two add_node calls:
\* the container with two siblings and the node with proxies that were allocated
\* have each been destructed once
C25_Witness ==
  \E r \in Ranks :
    /\ IsCall(r, "~NodeManager")
    /\ n_calls.ops = 2 /\ n_calls.add = 2
    /\ \E q \in DOMAIN pool[r] : num_thread_siblings(pool[r][q]) = 2
    /\ \E q \in DOMAIN pool[r] : pool[r][q].has_proxies_
    /\ \A q \in DOMAIN pool[r] : pool[r][q].destructed = 1

=============================================================================
